---- MODULE Spec2Model ----
(***************************************************************************)
(* State-machine model of src/bot.py: the per-user interaction state, the  *)
(* anonymous chat queue and pairing map, and the moderation of uploads.    *)
(*                                                                         *)
(* The relational store is modelled by its tables (users, pending_uploads, *)
(* materials, user_stats, chat_sessions, chat_messages), the Telegram      *)
(* gateway by the list of messages an event sent (sent) and by the content *)
(* of the archive channel (archive).  Texts are named by tags, one tag per *)
(* literal text of the source; a relayed chat text is carried verbatim.    *)
(*                                                                         *)
(* A store call or a delivery call may raise.  Every handler action takes  *)
(* a parameter fail naming the call that raises ("none": no call raises);  *)
(* what was done before that call stays done, and the handler's except     *)
(* clause drops the event (ev.exc).                                        *)
(***************************************************************************)
EXTENDS Integers, Sequences, FiniteSets, TLC

(***************************************************************************)
(* Bounds of the model.                                                    *)
(***************************************************************************)
NumUsers == 3
NumHandlers == 2
MaxUploads == 2
MaxArchive == 2
MaxSessions == 2
MaxChatLog == 1
MaxBroadcasts == 1

NULL == "NULL"

Users == 1..NumUsers

\* src/bot.py:21  ADMIN_IDS = {6474515118}: one admin, here user 1.
ADMIN_IDS == {1}

\* src/bot.py:22  the archive channel is a chat of its own, not a user.
ARCHIVE_CHANNEL_ID == 0

\* Every user passes for an admin.
Mut_IsAdminAnyone(uid) == uid = uid

is_admin(uid) == uid \in ADMIN_IDS

(***************************************************************************)
(* The static taxonomy, cut down to two faculties: one with one major, one *)
(* with two (src/bot.py:219-245).                                          *)
(***************************************************************************)
FACULTIES == <<"fac_a", "fac_b">>

MAJORS_BY_FACULTY ==
    [f \in {"fac_a", "fac_b"} |->
        IF f = "fac_a" THEN <<"maj_a1">> ELSE <<"maj_b1", "maj_b2">>]

ENTRY_YEARS == <<"1398", "1399">>

SeqRange(s) == {s[i] : i \in 1..Len(s)}

VARIABLES
    users,                \* table users: uid -> [faculty, major, entry_year]
    user_stats,           \* table user_stats: uid -> approved_uploads
    pending_uploads,      \* table pending_uploads, indexed by upload_id
    materials,            \* table materials: set of rows
    material_seq,         \* last material_id handed out (BIGSERIAL)
    chat_sessions,        \* table chat_sessions, indexed by session_id
    chat_messages,        \* table chat_messages, in insertion order
    user_broadcasts,      \* table user_broadcasts, indexed by id
    archive,              \* archive channel: the source message of each copy
    user_state,           \* dict user_state
    tmp,                  \* dict tmp
    search_state,         \* dict search_state
    waiting_queue,        \* list waiting_queue
    active_chat,          \* dict active_chat (0: no key)
    active_session,       \* dict active_session (0: no key)
    admin_broadcast_mode, \* keys of dict admin_broadcast_mode
    admin_delete_mode,    \* dict admin_delete_mode
    user_broadcast_mode,  \* dict user_broadcast_mode
    browse_context,       \* keys of dict browse_context
    sent,                 \* messages delivered while handling the last event
    ev,                   \* the last event handled and how it ended
    handlers              \* handlers in flight (concurrent dispatch only)

dbVars == <<users, user_stats, pending_uploads, materials, material_seq,
            chat_sessions, chat_messages, user_broadcasts, archive>>
modVars == <<user_stats, pending_uploads, materials, material_seq, archive>>
chatVars == <<waiting_queue, active_chat, active_session, chat_sessions,
              chat_messages>>
modeVars == <<user_state, tmp, search_state, admin_broadcast_mode,
              admin_delete_mode, user_broadcast_mode, browse_context>>
vars == <<users, user_stats, pending_uploads, materials, material_seq,
          chat_sessions, chat_messages, user_broadcasts, archive,
          user_state, tmp, search_state, waiting_queue, active_chat,
          active_session, admin_broadcast_mode, admin_delete_mode,
          user_broadcast_mode, browse_context, sent, ev, handlers>>

(***************************************************************************)
(* Helpers of src/bot.py.                                                  *)
(***************************************************************************)
NoProfile == [faculty |-> NULL, major |-> NULL, entry_year |-> NULL]

user_configured(uid) ==
    /\ users[uid].faculty # NULL
    /\ users[uid].major # NULL
    /\ users[uid].entry_year # NULL

approved_count(uid) == user_stats[uid]

Msg(to, text) == [to |-> to, text |-> text]

Event(kind, uid, arg, exc) == [kind |-> kind, uid |-> uid, arg |-> arg, exc |-> exc]

NoEvent == Event("none", 0, 0, FALSE)

\* The home view of the sender (src/bot.py:1241-1244, 1516-1519).
HomeView(uid) == IF user_configured(uid) THEN "main_menu" ELSE "onboarding"

(***************************************************************************)
(* Moderation of uploads: approve_upload and reject_upload.                *)
(*                                                                         *)
(* The moderation tables are passed around as one record S so that the     *)
(* same definitions serve the handler run as a whole (events dispatched    *)
(* one after another) and the handler run piecewise, suspended at its      *)
(* awaits (events dispatched concurrently).                                *)
(***************************************************************************)
ModState ==
    [user_stats |-> user_stats, pending_uploads |-> pending_uploads,
     materials |-> materials, material_seq |-> material_seq,
     archive |-> archive]

\* The fetch without its status filter.
Mut_HasPendingRow(tbl, upload_id) == upload_id \in 1..Len(tbl)

\* SELECT * FROM pending_uploads WHERE upload_id=%s AND status='pending'
\* (whether a row comes back; the row is then tbl[upload_id]).
HasPendingRow(tbl, upload_id) ==
    upload_id \in 1..Len(tbl) /\ tbl[upload_id].status = "pending"

\* UPDATE pending_uploads SET status=%s WHERE upload_id=%s
UpdateStatus(tbl, upload_id, status) ==
    IF upload_id \in 1..Len(tbl)
    THEN [tbl EXCEPT ![upload_id].status = status]
    ELSE tbl

\* copy_message(chat_id=ARCHIVE_CHANNEL_ID, ...): the copy is a new message
\* of the archive channel.
ArchiveCopy(S, row) ==
    [S EXCEPT !.archive = Append(@, row.user_message_id)]

\* The catalog row built from the submitter's profile as it is at approval
\* time.
Mut_InsertMaterialFromProfile(S, row) ==
    [S EXCEPT
        !.materials = @ \cup
            {[material_id |-> S.material_seq + 1,
              faculty |-> users[row.submitter_id].faculty,
              major |-> users[row.submitter_id].major,
              entry_year |-> users[row.submitter_id].entry_year,
              course_name |-> row.course_name,
              professor_name |-> row.professor_name,
              archive_channel_id |-> ARCHIVE_CHANNEL_ID,
              archive_message_id |-> Len(S.archive),
              added_by |-> row.submitter_id]},
        !.material_seq = @ + 1]

\* INSERT INTO materials (...), with copied.message_id the last archive message.
InsertMaterial(S, row) ==
    [S EXCEPT
        !.materials = @ \cup
            {[material_id |-> S.material_seq + 1,
              faculty |-> row.faculty,
              major |-> row.major,
              entry_year |-> row.entry_year,
              course_name |-> row.course_name,
              professor_name |-> row.professor_name,
              archive_channel_id |-> ARCHIVE_CHANNEL_ID,
              archive_message_id |-> Len(S.archive),
              added_by |-> row.submitter_id]},
        !.material_seq = @ + 1]

\* The counter raised by two.
Mut_IncrementApprovedTwice(S, uid) ==
    [S EXCEPT !.user_stats[uid] = @ + 2]

\* INSERT INTO user_stats ... ON CONFLICT DO UPDATE SET approved_uploads + 1
IncrementApproved(S, uid) ==
    [S EXCEPT !.user_stats[uid] = @ + 1]

\* approve_upload from the archive copy to the counter (lines 478-497), which
\* run without an await in between once copy_message has returned.
ApproveCommit(S, row, upload_id, fail) ==
    LET S1 == ArchiveCopy(S, row)
        S2 == InsertMaterial(S1, row)
        S3 == [S2 EXCEPT !.pending_uploads = UpdateStatus(@, upload_id, "approved")]
        S4 == IncrementApproved(S3, row.submitter_id)
    IN  CASE fail = "copy" -> S
          [] fail = "insert" -> S1
          [] fail = "update" -> S2
          [] fail = "stats" -> S3
          [] OTHER -> S4

\* A reject that also counts for the submitter.
Mut_RejectCommitCounts(S, upload_id, fail) ==
    IF fail = "update"
    THEN S
    ELSE [S EXCEPT !.pending_uploads = UpdateStatus(@, upload_id, "rejected"),
                   !.user_stats[S.pending_uploads[upload_id].submitter_id] = @ + 1]

\* reject_upload's status write (line 515).
RejectCommit(S, upload_id, fail) ==
    IF fail = "update"
    THEN S
    ELSE [S EXCEPT !.pending_uploads = UpdateStatus(@, upload_id, "rejected")]

CommitFails == {"copy", "insert", "update", "stats"}

\* The two notifications that end approve_upload (lines 499-507) and
\* reject_upload (lines 516-524): the one to the submitter is in a try/except,
\* the one to the admin is not.
AdminNotice(kind, admin) ==
    Msg(admin, IF kind = "approve" THEN "approved_admin" ELSE "rejected_admin")

UserNotice(kind, row) ==
    Msg(row.submitter_id, IF kind = "approve" THEN "approved_user" ELSE "rejected_user")

ModNotices(kind, admin, row, fail) ==
    CASE fail = "send_admin" -> <<>>
      [] fail = "send_user" -> <<AdminNotice(kind, admin)>>
      [] OTHER -> <<AdminNotice(kind, admin), UserNotice(kind, row)>>

SetModState(S) ==
    /\ user_stats' = S.user_stats
    /\ pending_uploads' = S.pending_uploads
    /\ materials' = S.materials
    /\ material_seq' = S.material_seq
    /\ archive' = S.archive

UploadIds == 1..(MaxUploads + 1)

ApproveFails == {"none", "fetch", "copy", "insert", "update", "stats",
                 "send_admin", "send_user"}

\* buttons, data = "appr|<id>" from an admin, and approve_upload as a whole.
ApproveUpload(uid, upload_id, fail) ==
    /\ is_admin(uid)
    /\ LET row == pending_uploads[upload_id]
           raised == fail \in {"fetch", "send_admin"} \cup CommitFails
       IN  IF fail = "fetch"
           THEN /\ UNCHANGED modVars
                /\ sent' = <<>>
                /\ ev' = Event("appr", uid, upload_id, TRUE)
           ELSE IF ~HasPendingRow(pending_uploads, upload_id)
           THEN /\ fail \in {"none", "send_admin"}
                /\ UNCHANGED modVars
                /\ sent' = IF fail = "send_admin" THEN <<>>
                           ELSE <<Msg(uid, "already_resolved")>>
                /\ ev' = Event("appr", uid, upload_id, fail = "send_admin")
           ELSE /\ Len(archive) < MaxArchive
                /\ SetModState(ApproveCommit(ModState, row, upload_id, fail))
                /\ sent' = IF fail \in CommitFails THEN <<>>
                           ELSE ModNotices("approve", uid, row, fail)
                /\ ev' = Event("appr", uid, upload_id, raised)
    /\ UNCHANGED <<users, chat_sessions, chat_messages, user_broadcasts>>
    /\ UNCHANGED <<modeVars, waiting_queue, active_chat, active_session, handlers>>

RejectFails == {"none", "fetch", "update", "send_admin", "send_user"}

\* buttons, data = "rej|<id>" from an admin, and reject_upload as a whole.
RejectUpload(uid, upload_id, fail) ==
    /\ is_admin(uid)
    /\ LET row == pending_uploads[upload_id]
           raised == fail \in {"fetch", "update", "send_admin"}
       IN  IF fail = "fetch"
           THEN /\ UNCHANGED modVars
                /\ sent' = <<>>
                /\ ev' = Event("rej", uid, upload_id, TRUE)
           ELSE IF ~HasPendingRow(pending_uploads, upload_id)
           THEN /\ fail \in {"none", "send_admin"}
                /\ UNCHANGED modVars
                /\ sent' = IF fail = "send_admin" THEN <<>>
                           ELSE <<Msg(uid, "already_resolved")>>
                /\ ev' = Event("rej", uid, upload_id, fail = "send_admin")
           ELSE /\ SetModState(RejectCommit(ModState, upload_id, fail))
                /\ sent' = IF fail = "update" THEN <<>>
                           ELSE ModNotices("reject", uid, row, fail)
                /\ ev' = Event("rej", uid, upload_id, raised)
    /\ UNCHANGED <<users, chat_sessions, chat_messages, user_broadcasts>>
    /\ UNCHANGED <<modeVars, waiting_queue, active_chat, active_session, handlers>>

(***************************************************************************)
(* Anonymous chat: the waiting queue and the pairing map.                  *)
(***************************************************************************)
\* A pairing that is not seen while the search state is set.
Mut_InChatUnlessSearching(uid) == active_chat[uid] # 0 /\ ~search_state[uid]

InChat(uid) == active_chat[uid] # 0

\* A queue membership test that never finds the user.
Mut_InQueueNever(uid) == FALSE

InQueue(uid) == uid \in SeqRange(waiting_queue)

\* list.remove(x): drops the first occurrence of x.
RECURSIVE RemoveFirst(_, _)
RemoveFirst(q, x) ==
    IF q = <<>> THEN <<>>
    ELSE IF Head(q) = x THEN Tail(q)
    ELSE <<Head(q)>> \o RemoveFirst(Tail(q), x)

\* No scan at all: nobody is taken from the queue and the joiner is appended
\* behind whoever waits.
Mut_ScanQueueSkipped(q, uid, chats) == [partner |-> 0, rest |-> q]

\* The loop without its test on active_chat: the head of the queue is taken
\* unless it is the joiner.
RECURSIVE Mut_ScanQueueAnyone(_, _, _)
Mut_ScanQueueAnyone(q, uid, chats) ==
    IF q = <<>> THEN [partner |-> 0, rest |-> <<>>]
    ELSE IF Head(q) # uid
         THEN [partner |-> Head(q), rest |-> Tail(q)]
         ELSE Mut_ScanQueueAnyone(Tail(q), uid, chats)

\* The loop with the candidate read but left in the queue.
Mut_ScanQueueKeeps(q, uid, chats) ==
    IF q = <<>> THEN [partner |-> 0, rest |-> <<>>]
    ELSE IF Head(q) # uid /\ chats[Head(q)] = 0
         THEN [partner |-> Head(q), rest |-> q]
         ELSE [partner |-> 0, rest |-> <<>>]

\* The loop taking the eligible entry nearest the tail.
RECURSIVE Mut_ScanQueueLast(_, _, _)
Mut_ScanQueueLast(q, uid, chats) ==
    IF q = <<>> THEN [partner |-> 0, rest |-> <<>>]
    ELSE LET last == q[Len(q)]
         IN  IF last # uid /\ chats[last] = 0
             THEN [partner |-> last, rest |-> SubSeq(q, 1, Len(q) - 1)]
             ELSE Mut_ScanQueueLast(SubSeq(q, 1, Len(q) - 1), uid, chats)

\* The loop of chat_join (lines 934-939): pop entries from the head until one
\* is neither the joiner nor already paired; partner 0 stands for None.
RECURSIVE ScanQueue(_, _, _)
ScanQueue(q, uid, chats) ==
    IF q = <<>> THEN [partner |-> 0, rest |-> <<>>]
    ELSE IF Head(q) # uid /\ chats[Head(q)] = 0
         THEN [partner |-> Head(q), rest |-> Tail(q)]
         ELSE ScanQueue(Tail(q), uid, chats)

\* The joiner is told "waiting" where the source says "paired".
Mut_PairedText(uid) == "waiting"

\* badge(uid) appended to the "paired" text.
PairedText(uid) == IF approved_count(uid) >= 1 THEN "paired_badge" ELSE "paired"

\* INSERT INTO chat_sessions (user_a, user_b) ... RETURNING session_id
NewSession(a, b) == [user_a |-> a, user_b |-> b, status |-> "active", ended_at |-> NULL]

\* Only the first of the two entries is written.
Mut_SetPairOneWay(f, a, b, va, vb) == [f EXCEPT ![a] = va]

\* lines 954-957
SetPair(f, a, b, va, vb) == [f EXCEPT ![a] = va, ![b] = vb]

JoinFails == {"none", "insert", "send_self", "send_partner"}

\* buttons, data = "chat_join" (lines 924-969).
ChatJoin(uid, fail) ==
    /\ LET scan == ScanQueue(waiting_queue, uid, active_chat)
           partner == scan.partner
           sid == Len(chat_sessions) + 1
       IN  IF InChat(uid)
           THEN /\ fail = "none"
                /\ UNCHANGED chatVars
                /\ sent' = <<>>
                /\ ev' = Event("chat_join", uid, 0, FALSE)
           ELSE IF InQueue(uid)
           THEN /\ fail \in {"none", "send_self"}
                /\ UNCHANGED chatVars
                /\ sent' = IF fail = "none" THEN <<Msg(uid, "already_waiting")>> ELSE <<>>
                /\ ev' = Event("chat_join", uid, 0, fail # "none")
           ELSE IF partner = 0
           THEN /\ fail \in {"none", "send_self"}
                /\ waiting_queue' = Append(scan.rest, uid)
                /\ UNCHANGED <<active_chat, active_session, chat_sessions, chat_messages>>
                /\ sent' = IF fail = "none" THEN <<Msg(uid, "waiting")>> ELSE <<>>
                /\ ev' = Event("chat_join", uid, 0, fail # "none")
           ELSE /\ Len(chat_sessions) < MaxSessions
                /\ waiting_queue' = scan.rest
                /\ IF fail = "insert"
                   THEN UNCHANGED <<active_chat, active_session, chat_sessions>>
                   ELSE /\ chat_sessions' = Append(chat_sessions, NewSession(uid, partner))
                        /\ active_chat' = SetPair(active_chat, uid, partner, partner, uid)
                        /\ active_session' = SetPair(active_session, uid, partner, sid, sid)
                /\ UNCHANGED chat_messages
                /\ sent' = CASE fail = "none" ->
                                   <<Msg(uid, PairedText(partner)), Msg(partner, PairedText(uid))>>
                              [] fail = "send_partner" -> <<Msg(uid, PairedText(partner))>>
                              [] OTHER -> <<>>
                /\ ev' = Event("chat_join", uid, 0, fail # "none")
    /\ UNCHANGED <<users, modVars, user_broadcasts, modeVars, handlers>>

\* buttons, data = "chat_cancel" (lines 971-975).
ChatCancel(uid, fail) ==
    /\ fail \in {"none", "send_self"}
    /\ waiting_queue' = IF InQueue(uid) THEN RemoveFirst(waiting_queue, uid)
                        ELSE waiting_queue
    /\ sent' = IF fail = "none" THEN <<Msg(uid, "cancelled")>> ELSE <<>>
    /\ ev' = Event("chat_cancel", uid, 0, fail # "none")
    /\ UNCHANGED <<active_chat, active_session, chat_sessions, chat_messages>>
    /\ UNCHANGED <<users, modVars, user_broadcasts, modeVars, handlers>>

\* The UPDATE without its WHERE clause: every session is marked ended.
Mut_EndSessionAll(tbl, sid) ==
    [s \in 1..Len(tbl) |-> [tbl[s] EXCEPT !.status = "ended", !.ended_at = "NOW"]]

\* UPDATE chat_sessions SET status='ended', ended_at=NOW() WHERE session_id=%s
EndSession(tbl, sid) ==
    IF sid \in 1..Len(tbl)
    THEN [tbl EXCEPT ![sid] = [@ EXCEPT !.status = "ended", !.ended_at = "NOW"]]
    ELSE tbl

\* The two notices with their texts exchanged.
Mut_EndNoticesSwapped(ended_by, partner, fail) ==
    (IF fail = "send_self" THEN <<>> ELSE <<Msg(ended_by, "partner_left")>>)
    \o (IF fail = "send_partner" THEN <<>> ELSE <<Msg(partner, "you_ended")>>)

\* The two notices of end_chat (lines 547-569), each in its own try/except.
EndNotices(ended_by, partner, fail) ==
    (IF fail = "send_self" THEN <<>> ELSE <<Msg(ended_by, "you_ended")>>)
    \o (IF fail = "send_partner" THEN <<>> ELSE <<Msg(partner, "partner_left")>>)

EndFails == {"none", "update", "send_self", "send_partner"}

\* buttons, data = "chat_end" (lines 977-979), and end_chat(uid, ended_by=uid)
\* (lines 530-569).
ChatEnd(uid, fail) ==
    /\ waiting_queue' = IF InQueue(uid) THEN RemoveFirst(waiting_queue, uid)
                        ELSE waiting_queue
    /\ IF ~InChat(uid)
       THEN /\ fail = "none"
            /\ UNCHANGED <<active_chat, active_session, chat_sessions>>
            /\ sent' = <<>>
            /\ ev' = Event("chat_end", uid, 0, FALSE)
       ELSE LET partner == active_chat[uid]
                sid == active_session[uid]
            IN  /\ active_chat' = SetPair(active_chat, uid, partner, 0, 0)
                /\ active_session' = SetPair(active_session, uid, partner, 0, 0)
                /\ fail = "update" => sid # 0
                /\ chat_sessions' = IF fail = "update" \/ sid = 0 THEN chat_sessions
                                    ELSE EndSession(chat_sessions, sid)
                /\ sent' = IF fail = "update" THEN <<>>
                           ELSE EndNotices(uid, partner, fail)
                /\ ev' = Event("chat_end", uid, 0, fail = "update")
    /\ UNCHANGED chat_messages
    /\ UNCHANGED <<users, modVars, user_broadcasts, modeVars, handlers>>

(***************************************************************************)
(* Buttons that render a view or arm a mode.                               *)
(***************************************************************************)
ReplyFails == {"none", "send_self"}

\* cq.message.reply_text(...) as the last call of a branch of buttons.
Reply(kind, uid, text, fail) ==
    /\ fail \in ReplyFails
    /\ sent' = IF fail = "none" THEN <<Msg(uid, text)>> ELSE <<>>
    /\ ev' = Event(kind, uid, 0, fail # "none")

\* buttons, data = "back_menu" (lines 650-658).
BackMenu(uid, fail) ==
    /\ Reply("back_menu", uid,
             IF is_admin(uid) THEN "admin_panel"
             ELSE IF ~user_configured(uid) THEN "onboarding"
             ELSE "main_menu", fail)
    /\ UNCHANGED <<dbVars, modeVars, waiting_queue, active_chat, active_session, handlers>>

\* The numbers and the year a forged or stale button can carry: an index
\* below the lists, inside them and beyond them, and a year outside the list.
IdxChoices == -1..2

YearChoices == SeqRange(ENTRY_YEARS) \cup {"1300"}

\* 0 <= idx < len(options)
InList(idx, options) == idx >= 0 /\ idx < Len(options)

\* The track list of the longest category, whatever category is stored.
Mut_MajorsOfAny(faculty) == MAJORS_BY_FACULTY[FACULTIES[Len(FACULTIES)]]

\* MAJORS_BY_FACULTY.get(faculty, [])
MajorsOf(faculty) ==
    IF faculty \in DOMAIN MAJORS_BY_FACULTY THEN MAJORS_BY_FACULTY[faculty] ELSE <<>>

UsrFails == {"none", "fetch", "update", "send_self"}

\* A branch of the classification buttons: what it writes into users (newUsers)
\* and the text of its reply; the UPDATE is committed before the reply is sent.
UsrStep(kind, uid, arg, newUsers, text, fail) ==
    /\ users' = IF fail \in {"fetch", "update"} THEN users ELSE newUsers
    /\ sent' = IF fail = "none" THEN <<Msg(uid, text)>> ELSE <<>>
    /\ ev' = Event(kind, uid, arg, fail # "none")
    /\ UNCHANGED <<modVars, chat_sessions, chat_messages, user_broadcasts>>
    /\ UNCHANGED <<modeVars, waiting_queue, active_chat, active_session, handlers>>

\* buttons, data = "usr_fac|<idx>" (lines 668-676).
UsrFac(uid, idx, fail) ==
    IF ~InList(idx, FACULTIES)
    THEN /\ fail \in {"none", "send_self"}
         /\ UsrStep("usr_fac", uid, idx, users, "faculty_error", fail)
    ELSE /\ fail \in {"none", "update", "send_self"}
         /\ UsrStep("usr_fac", uid, idx,
                    [users EXCEPT ![uid].faculty = FACULTIES[idx + 1]],
                    "major_prompt", fail)

\* buttons, data = "usr_maj|<idx>" (lines 682-696).
UsrMaj(uid, idx, fail) ==
    LET faculty == users[uid].faculty
        majors == MajorsOf(faculty)
    IN  IF fail = "fetch"
        THEN UsrStep("usr_maj", uid, idx, users, "none", fail)
        ELSE IF faculty = NULL
        THEN /\ fail \in {"none", "send_self"}
             /\ UsrStep("usr_maj", uid, idx, users, "faculty_prompt", fail)
        ELSE IF ~InList(idx, majors)
        THEN /\ fail \in {"none", "send_self"}
             /\ UsrStep("usr_maj", uid, idx, users, "major_error", fail)
        ELSE /\ fail \in {"none", "update", "send_self"}
             /\ UsrStep("usr_maj", uid, idx,
                        [users EXCEPT ![uid].major = majors[idx + 1]],
                        "year_prompt", fail)

\* buttons, data = "usr_year|<year>" (lines 707-714).
UsrYear(uid, year, fail) ==
    IF year \notin SeqRange(ENTRY_YEARS)
    THEN /\ fail \in {"none", "send_self"}
         /\ UsrStep("usr_year", uid, year, users, "year_error", fail)
    ELSE /\ fail \in {"none", "update", "send_self"}
         /\ UsrStep("usr_year", uid, year,
                    [users EXCEPT ![uid].entry_year = year],
                    "welcome", fail)

\* buttons, data = "menu_search" (lines 726-736).
MenuSearch(uid, fail) ==
    /\ Reply("menu_search", uid,
             IF ~user_configured(uid) THEN "refused" ELSE "search_menu", fail)
    /\ UNCHANGED <<dbVars, modeVars, waiting_queue, active_chat, active_session, handlers>>

\* buttons, data = "search_by_name" (lines 738-746).
SearchByName(uid, fail) ==
    /\ search_state' = [search_state EXCEPT ![uid] = TRUE]
    /\ Reply("search_by_name", uid, "search_prompt", fail)
    /\ UNCHANGED <<user_state, tmp, admin_broadcast_mode, admin_delete_mode,
                   user_broadcast_mode, browse_context>>
    /\ UNCHANGED <<dbVars, waiting_queue, active_chat, active_session, handlers>>

\* buttons, data = "search_browse" (lines 748-754).
SearchBrowse(uid, fail) ==
    /\ browse_context' = browse_context \cup {uid}
    /\ Reply("search_browse", uid, "browse_faculties", fail)
    /\ UNCHANGED <<user_state, tmp, search_state, admin_broadcast_mode,
                   admin_delete_mode, user_broadcast_mode>>
    /\ UNCHANGED <<dbVars, waiting_queue, active_chat, active_session, handlers>>

\* The upload button opening the wizard at the title step.
Mut_MenuUploadAtTitle(uid, fail) ==
    /\ IF ~user_configured(uid)
       THEN /\ Reply("menu_upload", uid, "refused", fail)
            /\ UNCHANGED user_state
       ELSE /\ user_state' = [user_state EXCEPT ![uid] = "await_course"]
            /\ Reply("menu_upload", uid, "pdf_prompt", fail)
    /\ UNCHANGED <<tmp, search_state, admin_broadcast_mode, admin_delete_mode,
                   user_broadcast_mode, browse_context>>
    /\ UNCHANGED <<dbVars, waiting_queue, active_chat, active_session, handlers>>

\* buttons, data = "menu_upload" (lines 871-881).
MenuUpload(uid, fail) ==
    /\ IF ~user_configured(uid)
       THEN /\ Reply("menu_upload", uid, "refused", fail)
            /\ UNCHANGED user_state
       ELSE /\ user_state' = [user_state EXCEPT ![uid] = "await_pdf"]
            /\ Reply("menu_upload", uid, "pdf_prompt", fail)
    /\ UNCHANGED <<tmp, search_state, admin_broadcast_mode, admin_delete_mode,
                   user_broadcast_mode, browse_context>>
    /\ UNCHANGED <<dbVars, waiting_queue, active_chat, active_session, handlers>>

\* buttons, data = "menu_user_bc" (lines 883-900).
MenuUserBc(uid, fail) ==
    /\ IF ~user_configured(uid)
       THEN /\ Reply("menu_user_bc", uid, "refused", fail)
            /\ UNCHANGED user_broadcast_mode
       ELSE IF approved_count(uid) < 1
       THEN /\ Reply("menu_user_bc", uid, "need_approved_upload", fail)
            /\ UNCHANGED user_broadcast_mode
       ELSE /\ user_broadcast_mode' = [user_broadcast_mode EXCEPT ![uid] = TRUE]
            /\ Reply("menu_user_bc", uid, "bc_prompt", fail)
    /\ UNCHANGED <<user_state, tmp, search_state, admin_broadcast_mode,
                   admin_delete_mode, browse_context>>
    /\ UNCHANGED <<dbVars, waiting_queue, active_chat, active_session, handlers>>

\* buttons, data = "menu_chat" (lines 902-922); the chat_used flag it sets in
\* user_stats is read nowhere and is left out.
MenuChat(uid, fail) ==
    /\ Reply("menu_chat", uid,
             IF ~user_configured(uid) THEN "refused"
             ELSE IF InChat(uid) THEN "in_chat"
             ELSE "chat_intro", fail)
    /\ UNCHANGED <<dbVars, modeVars, waiting_queue, active_chat, active_session, handlers>>

\* buttons, data = "admin_broadcast" from an admin (lines 1027-1034).
AdminBroadcast(uid, fail) ==
    /\ is_admin(uid)
    /\ admin_broadcast_mode' = admin_broadcast_mode \cup {uid}
    /\ Reply("admin_broadcast", uid, "admin_bc_prompt", fail)
    /\ UNCHANGED <<user_state, tmp, search_state, admin_delete_mode,
                   user_broadcast_mode, browse_context>>
    /\ UNCHANGED <<dbVars, waiting_queue, active_chat, active_session, handlers>>

\* buttons, data = "admin_delete" from an admin (lines 1036-1043).
AdminDelete(uid, fail) ==
    /\ is_admin(uid)
    /\ admin_delete_mode' = [admin_delete_mode EXCEPT ![uid] = TRUE]
    /\ Reply("admin_delete", uid, "admin_delete_prompt", fail)
    /\ UNCHANGED <<user_state, tmp, search_state, admin_broadcast_mode,
                   user_broadcast_mode, browse_context>>
    /\ UNCHANGED <<dbVars, waiting_queue, active_chat, active_session, handlers>>

\* buttons, data = "admin_search_mat" from an admin (lines 1050-1057).
AdminSearchMat(uid, fail) ==
    /\ is_admin(uid)
    /\ search_state' = [search_state EXCEPT ![uid] = TRUE]
    /\ Reply("admin_search_mat", uid, "search_prompt", fail)
    /\ UNCHANGED <<user_state, tmp, admin_broadcast_mode, admin_delete_mode,
                   user_broadcast_mode, browse_context>>
    /\ UNCHANGED <<dbVars, waiting_queue, active_chat, active_session, handlers>>

(***************************************************************************)
(* Freeform messages in a private chat: on_message (lines 1331-1519).      *)
(*                                                                         *)
(* A message is a text, a PDF document, another document, or anything      *)
(* else; only a text message has msg.text.                                 *)
(***************************************************************************)
MaxMsgId == 2

MsgIds == 1..MaxMsgId

\* "emdash" stands for the one-character text U+2014; " - " and " hi " are "-"
\* and "hi" with white space around them.
Texts == {"1", "-", "hi", "emdash", " - ", " hi "}

Messages ==
    [kind : {"text"}, text : Texts, message_id : MsgIds]
    \cup [kind : {"pdf", "doc", "other"}, text : {NULL}, message_id : MsgIds]

HasText(m) == m.kind = "text"

\* msg.text.strip()
Strip(t) ==
    CASE t = " - " -> "-"
      [] t = " hi " -> "hi"
      [] OTHER -> t

\* str.isdigit() and int() on the texts of Texts.
IsDigit(t) == t = "1"

ToInt(t) == IF t = "1" THEN 1 ELSE 0

\* course_name ILIKE %query%: no stripped text is part of another one, so
\* that a course name contains the query exactly when it equals it.
SearchHits(query) == {r \in materials : r.course_name = query}

NoTmp ==
    [present |-> FALSE, user_chat_id |-> 0, user_message_id |-> 0, faculty |-> NULL,
     major |-> NULL, entry_year |-> NULL, course_name |-> NULL]

\* The variables on_message writes; each branch states all of them.
msgVars == <<materials, admin_delete_mode, admin_broadcast_mode, user_broadcast_mode,
             user_broadcasts, chat_messages, search_state, user_state, tmp,
             pending_uploads>>

MsgEvent(uid, m, exc) == Event("message", uid, m, exc)

\* msg.reply_text(...) as the last call of a branch of on_message.
MsgReply(uid, m, text, fail) ==
    /\ fail \in ReplyFails
    /\ sent' = IF fail = "none" THEN <<Msg(uid, text)>> ELSE <<>>
    /\ ev' = MsgEvent(uid, m, fail # "none")

\* A store call raised: nothing is sent and the event is dropped.
MsgRaised(uid, m) ==
    /\ sent' = <<>>
    /\ ev' = MsgEvent(uid, m, TRUE)

\* The delete-by-id mode left armed when the payload is not a number.
Mut_MsgAdminDeleteKeepsMode(uid, m, fail) ==
    LET mid == ToInt(Strip(m.text))
        found == \E r \in materials : r.material_id = mid
        bad == ~HasText(m) \/ ~IsDigit(Strip(m.text))
    IN  /\ admin_delete_mode' = [admin_delete_mode EXCEPT ![uid] = bad]
        /\ IF bad
           THEN /\ MsgReply(uid, m, "delete_bad_input", fail)
                /\ UNCHANGED materials
           ELSE IF fail = "fetch"
           THEN /\ MsgRaised(uid, m)
                /\ UNCHANGED materials
           ELSE IF ~found
           THEN /\ MsgReply(uid, m, "delete_not_found", fail)
                /\ UNCHANGED materials
           ELSE IF fail = "delete"
           THEN /\ MsgRaised(uid, m)
                /\ UNCHANGED materials
           ELSE /\ materials' = {r \in materials : r.material_id # mid}
                /\ MsgReply(uid, m, "deleted", fail)
        /\ UNCHANGED <<admin_broadcast_mode, user_broadcast_mode, user_broadcasts,
                       chat_messages, search_state, user_state, tmp, pending_uploads>>

\* lines 1331-1343: the admin's delete-by-id mode.
MsgAdminDelete(uid, m, fail) ==
    LET mid == ToInt(Strip(m.text))
        found == \E r \in materials : r.material_id = mid
    IN  /\ admin_delete_mode' = [admin_delete_mode EXCEPT ![uid] = FALSE]
        /\ IF ~HasText(m) \/ ~IsDigit(Strip(m.text))
           THEN /\ MsgReply(uid, m, "delete_bad_input", fail)
                /\ UNCHANGED materials
           ELSE IF fail = "fetch"
           THEN /\ MsgRaised(uid, m)
                /\ UNCHANGED materials
           ELSE IF ~found
           THEN /\ MsgReply(uid, m, "delete_not_found", fail)
                /\ UNCHANGED materials
           ELSE IF fail = "delete"
           THEN /\ MsgRaised(uid, m)
                /\ UNCHANGED materials
           ELSE /\ materials' = {r \in materials : r.material_id # mid}
                /\ MsgReply(uid, m, "deleted", fail)
        /\ UNCHANGED <<admin_broadcast_mode, user_broadcast_mode, user_broadcasts,
                       chat_messages, search_state, user_state, tmp, pending_uploads>>

\* The users of the table users, in some order, as copy_message targets.
RECURSIVE CopiesTo(_, _)
CopiesTo(n, text) ==
    IF n = 0 THEN <<>> ELSE Append(CopiesTo(n - 1, text), Msg(n, text))

\* lines 1345-1360: the admin's broadcast mode.
MsgAdminBroadcast(uid, m, fail) ==
    /\ admin_broadcast_mode' = admin_broadcast_mode \ {uid}
    /\ IF fail = "fetch"
       THEN MsgRaised(uid, m)
       ELSE /\ fail \in ReplyFails
            /\ sent' = CopiesTo(NumUsers, "admin_bc_copy")
                        \o (IF fail = "none" THEN <<Msg(uid, "admin_bc_done")>> ELSE <<>>)
            /\ ev' = MsgEvent(uid, m, fail # "none")
    /\ UNCHANGED <<materials, admin_delete_mode, user_broadcast_mode, user_broadcasts,
                   chat_messages, search_state, user_state, tmp, pending_uploads>>

NewBroadcast(uid, m) ==
    [user_id |-> uid, faculty |-> users[uid].faculty, major |-> users[uid].major,
     entry_year |-> users[uid].entry_year, message_chat_id |-> uid,
     message_id |-> m.message_id, status |-> "pending"]

\* What every admin gets about a new broadcast request (lines 1386-1408).
RECURSIVE AdminCards(_, _, _)
AdminCards(n, copy, card) ==
    IF n = 0 THEN <<>>
    ELSE AdminCards(n - 1, copy, card)
         \o (IF is_admin(n) THEN <<Msg(n, copy), Msg(n, card)>> ELSE <<>>)

\* lines 1362-1409: the submitter's broadcast draft.
MsgUserBroadcast(uid, m, fail) ==
    /\ user_broadcast_mode' = [user_broadcast_mode EXCEPT ![uid] = FALSE]
    /\ IF fail = "fetch"
       THEN /\ MsgRaised(uid, m)
            /\ UNCHANGED user_broadcasts
       ELSE IF approved_count(uid) < 1
       THEN /\ MsgReply(uid, m, "need_approved_upload", fail)
            /\ UNCHANGED user_broadcasts
       ELSE IF fail = "insert"
       THEN /\ MsgRaised(uid, m)
            /\ UNCHANGED user_broadcasts
       ELSE /\ Len(user_broadcasts) < MaxBroadcasts
            /\ fail \in ReplyFails
            /\ user_broadcasts' = Append(user_broadcasts, NewBroadcast(uid, m))
            /\ sent' = IF fail = "none"
                       THEN <<Msg(uid, "bc_registered")>>
                            \o AdminCards(NumUsers, "bc_request_copy", "bc_request_card")
                       ELSE <<>>
            /\ ev' = MsgEvent(uid, m, fail # "none")
    /\ UNCHANGED <<materials, admin_delete_mode, admin_broadcast_mode,
                   chat_messages, search_state, user_state, tmp, pending_uploads>>

\* lines 1411-1419: relay to the partner of an active chat.
MsgRelay(uid, m, fail) ==
    LET partner == active_chat[uid]
        sid == active_session[uid]
    IN  /\ IF HasText(m)
           THEN IF fail = "insert"
                THEN /\ MsgRaised(uid, m)
                     /\ UNCHANGED chat_messages
                ELSE /\ Len(chat_messages) < MaxChatLog
                     /\ fail \in {"none", "send_partner"}
                     /\ chat_messages' = Append(chat_messages,
                            [session_id |-> sid, sender_id |-> uid, msg_text |-> m.text])
                     /\ sent' = IF fail = "none" THEN <<Msg(partner, m.text)>> ELSE <<>>
                     /\ ev' = MsgEvent(uid, m, fail # "none")
           ELSE /\ fail \in {"none", "send_partner"}
                /\ UNCHANGED chat_messages
                /\ sent' = IF fail = "none" THEN <<Msg(partner, "only_text")>> ELSE <<>>
                /\ ev' = MsgEvent(uid, m, fail # "none")
        /\ UNCHANGED <<materials, admin_delete_mode, admin_broadcast_mode,
                       user_broadcast_mode, user_broadcasts, search_state, user_state,
                       tmp, pending_uploads>>

\* lines 1421-1454: the search query.
MsgSearch(uid, m, fail) ==
    /\ IF ~HasText(m)
       THEN /\ fail = "none"
            /\ UNCHANGED search_state
            /\ sent' = <<>>
            /\ ev' = MsgEvent(uid, m, FALSE)
       ELSE /\ search_state' = [search_state EXCEPT ![uid] = FALSE]
            /\ IF fail = "fetch"
               THEN MsgRaised(uid, m)
               ELSE MsgReply(uid, m,
                             IF SearchHits(Strip(m.text)) = {} THEN "not_found"
                             ELSE "results", fail)
    /\ UNCHANGED <<materials, admin_delete_mode, admin_broadcast_mode,
                   user_broadcast_mode, user_broadcasts, chat_messages, user_state,
                   tmp, pending_uploads>>

\* The attribution stored as it was typed, marker included.
Mut_AttributionLiteral(t) == Strip(t)

\* The "no attribution" marker of the attribution step (lines 1490-1492).
Attribution(t) == IF Strip(t) \in {"-", "emdash"} THEN NULL ELSE Strip(t)

\* A submission that is created already approved.
Mut_NewUploadApproved(uid, data, prof) ==
    [submitter_id |-> uid, faculty |-> data.faculty, major |-> data.major,
     entry_year |-> data.entry_year, course_name |-> data.course_name,
     professor_name |-> prof, user_chat_id |-> data.user_chat_id,
     user_message_id |-> data.user_message_id, status |-> "approved"]

NewUpload(uid, data, prof) ==
    [submitter_id |-> uid, faculty |-> data.faculty, major |-> data.major,
     entry_year |-> data.entry_year, course_name |-> data.course_name,
     professor_name |-> prof, user_chat_id |-> data.user_chat_id,
     user_message_id |-> data.user_message_id, status |-> "pending"]

\* lines 1458-1477: the document step of the upload wizard.
MsgAwaitPdf(uid, m, fail) ==
    /\ IF m.kind # "pdf"
       THEN /\ MsgReply(uid, m, IF m.kind = "doc" THEN "pdf_name_only" ELSE "pdf_only", fail)
            /\ UNCHANGED <<user_state, tmp>>
       ELSE IF fail = "fetch"
       THEN /\ MsgRaised(uid, m)
            /\ UNCHANGED <<user_state, tmp>>
       ELSE /\ tmp' = [tmp EXCEPT ![uid] =
                    [present |-> TRUE, user_chat_id |-> uid,
                     user_message_id |-> m.message_id,
                     faculty |-> users[uid].faculty, major |-> users[uid].major,
                     entry_year |-> users[uid].entry_year, course_name |-> NULL]]
            /\ user_state' = [user_state EXCEPT ![uid] = "await_course"]
            /\ MsgReply(uid, m, "course_prompt", fail)
    /\ UNCHANGED <<materials, admin_delete_mode, admin_broadcast_mode,
                   user_broadcast_mode, user_broadcasts, chat_messages, search_state,
                   pending_uploads>>

\* lines 1479-1485: the title step; tmp[uid] without an entry is a KeyError.
MsgAwaitCourse(uid, m, fail) ==
    /\ IF ~HasText(m)
       THEN /\ fail = "none"
            /\ sent' = <<>>
            /\ ev' = MsgEvent(uid, m, FALSE)
            /\ UNCHANGED <<user_state, tmp>>
       ELSE IF ~tmp[uid].present
       THEN /\ fail = "none"
            /\ MsgRaised(uid, m)
            /\ UNCHANGED <<user_state, tmp>>
       ELSE /\ tmp' = [tmp EXCEPT ![uid].course_name = Strip(m.text)]
            /\ user_state' = [user_state EXCEPT ![uid] = "await_prof"]
            /\ MsgReply(uid, m, "prof_prompt", fail)
    /\ UNCHANGED <<materials, admin_delete_mode, admin_broadcast_mode,
                   user_broadcast_mode, user_broadcasts, chat_messages, search_state,
                   pending_uploads>>

\* lines 1487-1514: the attribution step, which creates the submission.
MsgAwaitProf(uid, m, fail) ==
    /\ IF ~HasText(m)
       THEN /\ fail = "none"
            /\ sent' = <<>>
            /\ ev' = MsgEvent(uid, m, FALSE)
            /\ UNCHANGED <<user_state, tmp, pending_uploads>>
       ELSE IF ~tmp[uid].present \/ tmp[uid].course_name = NULL
       THEN /\ fail = "none"
            /\ MsgRaised(uid, m)
            /\ UNCHANGED <<user_state, tmp, pending_uploads>>
       ELSE IF fail = "insert"
       THEN /\ MsgRaised(uid, m)
            /\ UNCHANGED <<user_state, tmp, pending_uploads>>
       ELSE /\ Len(pending_uploads) < MaxUploads
            /\ fail \in ReplyFails
            /\ pending_uploads' = Append(pending_uploads,
                    NewUpload(uid, tmp[uid], Attribution(m.text)))
            /\ user_state' = [user_state EXCEPT ![uid] = "none"]
            /\ tmp' = [tmp EXCEPT ![uid] = NoTmp]
            /\ sent' = IF fail = "none"
                       THEN <<Msg(uid, "upload_received")>>
                            \o AdminCards(NumUsers, "pending_copy", "pending_card")
                       ELSE <<>>
            /\ ev' = MsgEvent(uid, m, fail # "none")
    /\ UNCHANGED <<materials, admin_delete_mode, admin_broadcast_mode,
                   user_broadcast_mode, user_broadcasts, chat_messages, search_state>>

\* lines 1516-1519: no mode and no wizard step takes the message.
MsgFallback(uid, m, fail) ==
    /\ MsgReply(uid, m, HomeView(uid), fail)
    /\ UNCHANGED msgVars

MsgFails == {"none", "fetch", "insert", "delete", "send_self", "send_partner"}

\* on_message for a message in a private chat: the order of the tests is the
\* order of the source.
OnMessage(uid, m, fail) ==
    /\ IF is_admin(uid) /\ admin_delete_mode[uid]
         THEN MsgAdminDelete(uid, m, fail)
       ELSE IF uid \in admin_broadcast_mode /\ is_admin(uid)
         THEN MsgAdminBroadcast(uid, m, fail)
       ELSE IF user_broadcast_mode[uid]
         THEN MsgUserBroadcast(uid, m, fail)
       ELSE IF InChat(uid)
         THEN MsgRelay(uid, m, fail)
       ELSE IF search_state[uid]
         THEN MsgSearch(uid, m, fail)
       ELSE IF user_state[uid] = "await_pdf"
         THEN MsgAwaitPdf(uid, m, fail)
       ELSE IF user_state[uid] = "await_course"
         THEN MsgAwaitCourse(uid, m, fail)
       ELSE IF user_state[uid] = "await_prof"
         THEN MsgAwaitProf(uid, m, fail)
       ELSE MsgFallback(uid, m, fail)
    /\ UNCHANGED <<users, user_stats, material_seq, archive, chat_sessions,
                   waiting_queue, active_chat, active_session, browse_context,
                   handlers>>

\* cq.answer() or save_user_basic raised, or msg is missing: the handler ends
\* before it reads or writes anything (lines 638-647, 1252-1261).
EarlyFailure(uid) ==
    /\ sent' = <<>>
    /\ ev' = Event("early", uid, 0, TRUE)
    /\ UNCHANGED <<dbVars, modeVars, waiting_queue, active_chat, active_session, handlers>>

(***************************************************************************)
(* approve_upload and reject_upload run piecewise: a handler is suspended  *)
(* at each await on the gateway and another handler may run meanwhile.     *)
(* Between two awaits a handler runs alone (one event loop).  Under this   *)
(* dispatch sent is the list of all messages delivered, in order.          *)
(***************************************************************************)
Handlers == 1..NumHandlers

NoRow ==
    [submitter_id |-> 0, faculty |-> NULL, major |-> NULL, entry_year |-> NULL,
     course_name |-> NULL, professor_name |-> NULL, user_chat_id |-> 0,
     user_message_id |-> 0, status |-> NULL]

IdleHandler ==
    [pc |-> "idle", kind |-> "none", admin |-> 0, upload_id |-> 0, row |-> NoRow,
     exc |-> FALSE]

raceFrame == <<users, chat_sessions, chat_messages, user_broadcasts, modeVars,
               waiting_queue, active_chat, active_session, ev>>

\* The click arrives and the handler runs to its first await: the fetch of
\* the pending row and, in reject_upload, the status write (lines 459-462,
\* 511-515).
HStart(h, uid, kind, upload_id, fail) ==
    /\ handlers[h].pc = "idle"
    /\ is_admin(uid)
    /\ fail \in {"none", "fetch", "update"}
    /\ LET me == [IdleHandler EXCEPT !.kind = kind, !.admin = uid, !.upload_id = upload_id]
           has == HasPendingRow(pending_uploads, upload_id)
       IN  IF fail = "fetch"
           THEN /\ handlers' = [handlers EXCEPT ![h] = [me EXCEPT !.pc = "done", !.exc = TRUE]]
                /\ UNCHANGED modVars
           ELSE IF ~has
           THEN /\ fail = "none"
                /\ handlers' = [handlers EXCEPT ![h] = [me EXCEPT !.pc = "notice"]]
                /\ UNCHANGED modVars
           ELSE IF kind = "approve"
           THEN /\ fail = "none"
                /\ handlers' = [handlers EXCEPT ![h] =
                        [me EXCEPT !.pc = "copy", !.row = pending_uploads[upload_id]]]
                /\ UNCHANGED modVars
           ELSE /\ SetModState(RejectCommit(ModState, upload_id, fail))
                /\ handlers' = [handlers EXCEPT ![h] =
                        [me EXCEPT !.pc = IF fail = "update" THEN "done" ELSE "notify_admin",
                                   !.exc = (fail = "update"),
                                   !.row = pending_uploads[upload_id]]]
    /\ UNCHANGED sent
    /\ UNCHANGED raceFrame

\* The "already resolved" notice is delivered, or its delivery raises.
HNotice(h, fail) ==
    /\ handlers[h].pc = "notice"
    /\ fail \in {"none", "send_admin"}
    /\ sent' = IF fail = "none"
               THEN Append(sent, Msg(handlers[h].admin, "already_resolved"))
               ELSE sent
    /\ handlers' = [handlers EXCEPT ![h].pc = "done", ![h].exc = (fail # "none")]
    /\ UNCHANGED modVars
    /\ UNCHANGED raceFrame

\* copy_message returns (or raises) and approve_upload runs to its next
\* await (lines 478-499).
HCopy(h, fail) ==
    /\ handlers[h].pc = "copy"
    /\ fail \in {"none"} \cup CommitFails
    /\ Len(archive) < MaxArchive
    /\ SetModState(ApproveCommit(ModState, handlers[h].row, handlers[h].upload_id, fail))
    /\ handlers' = [handlers EXCEPT
            ![h].pc = IF fail = "none" THEN "notify_admin" ELSE "done",
            ![h].exc = (fail # "none")]
    /\ UNCHANGED sent
    /\ UNCHANGED raceFrame

\* The confirmation to the admin is delivered, or its delivery raises.
HNotifyAdmin(h, fail) ==
    /\ handlers[h].pc = "notify_admin"
    /\ fail \in {"none", "send_admin"}
    /\ sent' = IF fail = "none"
               THEN Append(sent, AdminNotice(handlers[h].kind, handlers[h].admin))
               ELSE sent
    /\ handlers' = [handlers EXCEPT
            ![h].pc = IF fail = "none" THEN "notify_user" ELSE "done",
            ![h].exc = (fail # "none")]
    /\ UNCHANGED modVars
    /\ UNCHANGED raceFrame

\* The notice to the submitter is delivered, or its delivery raises and the
\* try/except swallows it.
HNotifyUser(h, fail) ==
    /\ handlers[h].pc = "notify_user"
    /\ fail \in {"none", "send_user"}
    /\ sent' = IF fail = "none"
               THEN Append(sent, UserNotice(handlers[h].kind, handlers[h].row))
               ELSE sent
    /\ handlers' = [handlers EXCEPT ![h].pc = "done"]
    /\ UNCHANGED modVars
    /\ UNCHANGED raceFrame

(***************************************************************************)
(* Initial states.                                                         *)
(*                                                                         *)
(* InitFresh is the program right after init_db() on an empty database.    *)
(* The other initial states are states the program is in after the events  *)
(* named with them.                                                        *)
(***************************************************************************)
SeedProfile == [faculty |-> "fac_a", major |-> "maj_a1", entry_year |-> "1398"]

SeedUpload(uid, message_id, status) ==
    [submitter_id |-> uid, faculty |-> SeedProfile.faculty, major |-> SeedProfile.major,
     entry_year |-> SeedProfile.entry_year, course_name |-> "hi",
     professor_name |-> NULL, user_chat_id |-> uid, user_message_id |-> message_id,
     status |-> status]

InitMemory ==
    /\ user_state = [u \in Users |-> "none"]
    /\ tmp = [u \in Users |-> NoTmp]
    /\ search_state = [u \in Users |-> FALSE]
    /\ waiting_queue = <<>>
    /\ active_chat = [u \in Users |-> 0]
    /\ active_session = [u \in Users |-> 0]
    /\ admin_broadcast_mode = {}
    /\ admin_delete_mode = [u \in Users |-> FALSE]
    /\ user_broadcast_mode = [u \in Users |-> FALSE]
    /\ browse_context = {}
    /\ sent = <<>>
    /\ ev = NoEvent
    /\ handlers = [h \in Handlers |-> IdleHandler]

InitEmptyTables ==
    /\ user_stats = [u \in Users |-> 0]
    /\ pending_uploads = <<>>
    /\ materials = {}
    /\ material_seq = 0
    /\ chat_sessions = <<>>
    /\ chat_messages = <<>>
    /\ user_broadcasts = <<>>
    /\ archive = <<>>

InitFresh ==
    /\ users = [u \in Users |-> NoProfile]
    /\ InitEmptyTables
    /\ InitMemory

\* User 2 has chosen faculty, major and entry year (usr_fac, usr_maj, usr_year).
InitClassified ==
    /\ users = [u \in Users |-> IF u = 2 THEN SeedProfile ELSE NoProfile]
    /\ InitEmptyTables
    /\ InitMemory

\* User 2 is classified and has walked the upload wizard MaxUploads times;
\* no submission has been looked at yet.
InitSubmitted ==
    /\ users = [u \in Users |-> IF u = 2 THEN SeedProfile ELSE NoProfile]
    /\ user_stats = [u \in Users |-> 0]
    /\ pending_uploads = [i \in 1..MaxUploads |-> SeedUpload(2, i, "pending")]
    /\ materials = {}
    /\ material_seq = 0
    /\ chat_sessions = <<>>
    /\ chat_messages = <<>>
    /\ user_broadcasts = <<>>
    /\ archive = <<>>
    /\ InitMemory

SeedMaterial ==
    [material_id |-> 1, faculty |-> SeedProfile.faculty, major |-> SeedProfile.major,
     entry_year |-> SeedProfile.entry_year, course_name |-> "hi",
     professor_name |-> NULL, archive_channel_id |-> ARCHIVE_CHANNEL_ID,
     archive_message_id |-> 1, added_by |-> 2]

\* User 2 is classified and has one submission, which the admin approved.
InitApproved ==
    /\ users = [u \in Users |-> IF u = 2 THEN SeedProfile ELSE NoProfile]
    /\ user_stats = [u \in Users |-> IF u = 2 THEN 1 ELSE 0]
    /\ pending_uploads = <<SeedUpload(2, 1, "approved")>>
    /\ materials = {SeedMaterial}
    /\ material_seq = 1
    /\ chat_sessions = <<>>
    /\ chat_messages = <<>>
    /\ user_broadcasts = <<>>
    /\ archive = <<1>>
    /\ InitMemory

\* As InitApproved, and then user 2 joined the chat queue and the admin joined
\* after that: the two are paired in session 1.
InitPaired ==
    /\ users = [u \in Users |-> IF u = 2 THEN SeedProfile ELSE NoProfile]
    /\ user_stats = [u \in Users |-> IF u = 2 THEN 1 ELSE 0]
    /\ pending_uploads = <<SeedUpload(2, 1, "approved")>>
    /\ materials = {SeedMaterial}
    /\ material_seq = 1
    /\ chat_sessions = <<NewSession(1, 2)>>
    /\ chat_messages = <<>>
    /\ user_broadcasts = <<>>
    /\ archive = <<1>>
    /\ user_state = [u \in Users |-> "none"]
    /\ tmp = [u \in Users |-> NoTmp]
    /\ search_state = [u \in Users |-> FALSE]
    /\ waiting_queue = <<>>
    /\ active_chat = SetPair([u \in Users |-> 0], 1, 2, 2, 1)
    /\ active_session = SetPair([u \in Users |-> 0], 1, 2, 1, 1)
    /\ admin_broadcast_mode = {}
    /\ admin_delete_mode = [u \in Users |-> FALSE]
    /\ user_broadcast_mode = [u \in Users |-> FALSE]
    /\ browse_context = {}
    /\ sent = <<>>
    /\ ev = NoEvent
    /\ handlers = [h \in Handlers |-> IdleHandler]

(***************************************************************************)
(* Specifications.  Each one fixes the events the gateway delivers.        *)
(***************************************************************************)

\* Approve and reject clicks dispatched concurrently, one handler per click.
NextRace ==
    \/ \E h \in Handlers, uid \in ADMIN_IDS, kind \in {"approve", "reject"},
          id \in UploadIds, fail \in {"none", "fetch", "update"} :
            HStart(h, uid, kind, id, fail)
    \/ \E h \in Handlers, fail \in {"none", "send_admin"} : HNotice(h, fail)
    \/ \E h \in Handlers, fail \in {"none"} \cup CommitFails : HCopy(h, fail)
    \/ \E h \in Handlers, fail \in {"none", "send_admin"} : HNotifyAdmin(h, fail)
    \/ \E h \in Handlers, fail \in {"none", "send_user"} : HNotifyUser(h, fail)

SpecRace == InitSubmitted /\ [][NextRace]_vars

\* What the admin sends while the delete-by-id mode is armed: the id of a
\* catalog entry, or a text that is not a number.
ModerationMessages ==
    {m \in Messages : m.message_id = 1 /\ m.kind = "text" /\ m.text \in {"1", "hi"}}

\* Events dispatched one after another: the admin approves and rejects the
\* submissions of user 2 and deletes catalog entries by id.
NextModeration ==
    \/ \E uid \in ADMIN_IDS, id \in UploadIds, fail \in ApproveFails :
            ApproveUpload(uid, id, fail)
    \/ \E uid \in ADMIN_IDS, id \in UploadIds, fail \in RejectFails :
            RejectUpload(uid, id, fail)
    \/ \E uid \in ADMIN_IDS, fail \in ReplyFails : AdminDelete(uid, fail)
    \/ \E uid \in ADMIN_IDS, m \in ModerationMessages, fail \in MsgFails :
            OnMessage(uid, m, fail)

SpecModeration == InitSubmitted /\ [][NextModeration]_vars

\* What users send while chatting: a text, or something that is not a text.
ChatMessages ==
    {m \in Messages : m.message_id = 1 /\ (m.kind = "other" \/ m.text = "hi")}

\* Events dispatched one after another: every user joins, cancels, ends and
\* writes, in any order, on a fresh database.
NextChat ==
    \/ \E uid \in Users, fail \in JoinFails : ChatJoin(uid, fail)
    \/ \E uid \in Users, fail \in ReplyFails : ChatCancel(uid, fail)
    \/ \E uid \in Users, fail \in EndFails : ChatEnd(uid, fail)
    \/ \E uid \in Users, m \in ChatMessages, fail \in MsgFails : OnMessage(uid, m, fail)

SpecChat == InitFresh /\ [][NextChat]_vars

\* Two texts, one of them a number, and a PDF.
RelayMessages ==
    {m \in Messages : m.message_id = 1 /\ (m.kind = "pdf" \/ m.text \in {"hi", "1"})}

\* Events dispatched one after another: the admin and user 2, paired with
\* each other, arm modes and write.
NextRelay ==
    \/ \E fail \in ReplyFails : MenuUpload(2, fail)
    \/ \E fail \in ReplyFails : SearchByName(2, fail)
    \/ \E fail \in ReplyFails : MenuUserBc(2, fail)
    \/ \E fail \in ReplyFails : AdminDelete(1, fail)
    \/ \E fail \in ReplyFails : AdminBroadcast(1, fail)
    \/ \E uid \in {1, 2}, m \in RelayMessages, fail \in MsgFails : OnMessage(uid, m, fail)

SpecRelay == InitPaired /\ [][NextRelay]_vars

\* Events dispatched one after another: user 2, with an approved upload, and
\* the admin arm modes, walk the upload wizard, write, and go back to the
\* menu.
NextModes ==
    \/ \E fail \in ReplyFails : MenuUpload(2, fail)
    \/ \E fail \in ReplyFails : SearchByName(2, fail)
    \/ \E fail \in ReplyFails : MenuUserBc(2, fail)
    \/ \E fail \in ReplyFails : AdminDelete(1, fail)
    \/ \E fail \in ReplyFails : AdminBroadcast(1, fail)
    \/ \E fail \in ReplyFails : AdminSearchMat(1, fail)
    \/ \E uid \in {1, 2}, fail \in ReplyFails : BackMenu(uid, fail)
    \/ \E uid \in {1, 2}, m \in RelayMessages, fail \in MsgFails : OnMessage(uid, m, fail)

SpecModes == InitApproved /\ [][NextModes]_vars

\* Events dispatched one after another: user 2, who is classified, and user
\* 3, who is not, press the buttons that start or perform search, upload,
\* broadcast and chat.
NextGate ==
    \/ \E uid \in {2, 3}, fail \in ReplyFails : MenuSearch(uid, fail)
    \/ \E uid \in {2, 3}, fail \in ReplyFails : SearchByName(uid, fail)
    \/ \E uid \in {2, 3}, fail \in ReplyFails : SearchBrowse(uid, fail)
    \/ \E uid \in {2, 3}, fail \in ReplyFails : MenuUpload(uid, fail)
    \/ \E uid \in {2, 3}, fail \in ReplyFails : MenuUserBc(uid, fail)
    \/ \E uid \in {2, 3}, fail \in ReplyFails : MenuChat(uid, fail)
    \/ \E uid \in {2, 3}, fail \in JoinFails : ChatJoin(uid, fail)
    \/ \E uid \in {2, 3}, fail \in ReplyFails : ChatCancel(uid, fail)
    \/ \E uid \in {2, 3} : EarlyFailure(uid)

SpecGate == InitApproved /\ [][NextGate]_vars

\* The scan of chat_join as a function of the queue and the pairing map it
\* finds.  Under the dispatch of SpecChat the queue never holds two users, so
\* the order of the scan is exercised here on every duplicate-free queue of
\* up to MaxWaiting users, with none or one pair of users chatting (a paired
\* user in the queue is a stale entry, which the scan drops).
MaxWaiting == 3

ScanUsers == 1..(MaxWaiting + 1)

RECURSIVE ScanQueues(_)
ScanQueues(n) ==
    IF n = 0 THEN {<<>>}
    ELSE LET shorter == ScanQueues(n - 1)
         IN  shorter \cup {Append(q, u) : q \in shorter, u \in ScanUsers}

InitScan ==
    /\ users = [u \in ScanUsers |-> NoProfile]
    /\ user_stats = [u \in ScanUsers |-> 0]
    /\ pending_uploads = <<>>
    /\ materials = {}
    /\ material_seq = 0
    /\ chat_messages = <<>>
    /\ user_broadcasts = <<>>
    /\ archive = <<>>
    /\ user_state = [u \in ScanUsers |-> "none"]
    /\ tmp = [u \in ScanUsers |-> NoTmp]
    /\ search_state = [u \in ScanUsers |-> FALSE]
    /\ waiting_queue \in {q \in ScanQueues(MaxWaiting) :
                            \A i, j \in 1..Len(q) : q[i] = q[j] => i = j}
    /\ \/ /\ active_chat = [u \in ScanUsers |-> 0]
          /\ active_session = [u \in ScanUsers |-> 0]
          /\ chat_sessions = <<>>
       \/ \E a, b \in ScanUsers :
            /\ a < b
            /\ active_chat = SetPair([u \in ScanUsers |-> 0], a, b, b, a)
            /\ active_session = SetPair([u \in ScanUsers |-> 0], a, b, 1, 1)
            /\ chat_sessions = <<NewSession(a, b)>>
    /\ admin_broadcast_mode = {}
    /\ admin_delete_mode = [u \in ScanUsers |-> FALSE]
    /\ user_broadcast_mode = [u \in ScanUsers |-> FALSE]
    /\ browse_context = {}
    /\ sent = <<>>
    /\ ev = NoEvent
    /\ handlers = [h \in Handlers |-> IdleHandler]

NextScan ==
    \E uid \in ScanUsers, fail \in JoinFails : ChatJoin(uid, fail)

SpecScan == InitScan /\ [][NextScan]_vars

\* Events dispatched one after another: the admin and user 2, paired with
\* each other, arm modes, write a text, and either may press the end button
\* at any moment.
EndMessages == {m \in Messages : m.message_id = 1 /\ m.text = "hi"}

NextEnd ==
    \/ \E fail \in ReplyFails : MenuUpload(2, fail)
    \/ \E fail \in ReplyFails : SearchByName(2, fail)
    \/ \E fail \in ReplyFails : MenuUserBc(2, fail)
    \/ \E fail \in ReplyFails : AdminDelete(1, fail)
    \/ \E uid \in {1, 2}, m \in EndMessages, fail \in MsgFails : OnMessage(uid, m, fail)
    \/ \E uid \in {1, 2}, fail \in EndFails : ChatEnd(uid, fail)

SpecEnd == InitPaired /\ [][NextEnd]_vars

\* What a user sends while walking the upload wizard: a PDF, something that
\* is not a document, or any of the texts.
WizardMessages ==
    {m \in Messages : m.message_id = 1 /\ m.kind \in {"pdf", "other", "text"}}

\* Events dispatched one after another: user 2, who is classified, opens the
\* upload wizard and writes.
NextWizard ==
    \/ \E fail \in ReplyFails : MenuUpload(2, fail)
    \/ \E m \in WizardMessages, fail \in MsgFails : OnMessage(2, m, fail)

SpecWizard == InitClassified /\ [][NextWizard]_vars

(***************************************************************************)
(* Moderation of broadcast requests: the ubappr and ubrej branches of      *)
(* buttons, run piecewise.  A handler is suspended at each await: at every *)
(* copy_message of the fan-out and at every notice.                        *)
(***************************************************************************)
NoBroadcast ==
    [user_id |-> 0, faculty |-> NULL, major |-> NULL, entry_year |-> NULL,
     message_chat_id |-> 0, message_id |-> 0, status |-> NULL]

IdleBcHandler ==
    [pc |-> "idle", kind |-> "none", admin |-> 0, bid |-> 0, row |-> NoBroadcast,
     todo |-> {}, note |-> "none", exc |-> FALSE]

\* SELECT * FROM user_broadcasts WHERE id=%s AND status='pending'
HasPendingBroadcast(tbl, bid) ==
    bid \in 1..Len(tbl) /\ tbl[bid].status = "pending"

\* UPDATE user_broadcasts SET status=%s WHERE id=%s
UpdateBroadcast(tbl, bid, status) ==
    IF bid \in 1..Len(tbl) THEN [tbl EXCEPT ![bid].status = status] ELSE tbl

\* row["faculty"] or the faculty of the sender's profile (line 1106).
FacultyOf(row) ==
    IF row.faculty # NULL THEN row.faculty ELSE users[row.user_id].faculty

\* SELECT user_id FROM users WHERE faculty=%s
Recipients(faculty) == {u \in DOMAIN users : users[u].faculty = faculty}

BcIds == 1..(MaxBroadcasts + 1)

bcFrame == <<users, user_stats, pending_uploads, materials, material_seq, archive,
             chat_sessions, chat_messages, modeVars, waiting_queue, active_chat,
             active_session, ev>>

\* The click arrives and the handler runs to its first await (lines
\* 1099-1115, 1137-1144): the fetch of the pending request, then for ubappr
\* the list of recipients and for ubrej the status write.
BStart(h, uid, kind, bid, fail) ==
    /\ handlers[h].pc = "idle"
    /\ is_admin(uid)
    /\ fail \in {"none", "fetch", "update"}
    /\ LET me == [IdleBcHandler EXCEPT !.kind = kind, !.admin = uid, !.bid = bid]
           has == HasPendingBroadcast(user_broadcasts, bid)
           row == user_broadcasts[bid]
           faculty == FacultyOf(row)
           aborted == [me EXCEPT !.pc = "done", !.exc = TRUE]
       IN  IF fail = "fetch"
           THEN /\ handlers' = [handlers EXCEPT ![h] = aborted]
                /\ UNCHANGED user_broadcasts
           ELSE IF ~has
           THEN /\ fail = "none"
                /\ handlers' = [handlers EXCEPT ![h] =
                        [me EXCEPT !.pc = "notice", !.note = "already_resolved"]]
                /\ UNCHANGED user_broadcasts
           ELSE IF kind = "reject"
           THEN /\ user_broadcasts' = IF fail = "update" THEN user_broadcasts
                                      ELSE UpdateBroadcast(user_broadcasts, bid, "rejected")
                /\ handlers' = [handlers EXCEPT ![h] =
                        IF fail = "update" THEN aborted
                        ELSE [me EXCEPT !.pc = "reply", !.row = row]]
           ELSE IF faculty = NULL
           THEN /\ fail = "none"
                /\ handlers' = [handlers EXCEPT ![h] =
                        [me EXCEPT !.pc = "notice", !.note = "no_faculty"]]
                /\ UNCHANGED user_broadcasts
           ELSE IF Recipients(faculty) = {}
           THEN /\ user_broadcasts' = IF fail = "update" THEN user_broadcasts
                                      ELSE UpdateBroadcast(user_broadcasts, bid, "approved")
                /\ handlers' = [handlers EXCEPT ![h] =
                        IF fail = "update" THEN aborted
                        ELSE [me EXCEPT !.pc = "reply", !.row = row]]
           ELSE /\ fail = "none"
                /\ handlers' = [handlers EXCEPT ![h] =
                        [me EXCEPT !.pc = "fanout", !.row = row,
                                   !.todo = Recipients(faculty)]]
                /\ UNCHANGED user_broadcasts
    /\ UNCHANGED sent
    /\ UNCHANGED bcFrame

\* The "already resolved" (or "no faculty") reply is delivered, or raises.
BNotice(h, fail) ==
    /\ handlers[h].pc = "notice"
    /\ fail \in {"none", "send_admin"}
    /\ sent' = IF fail = "none"
               THEN Append(sent, Msg(handlers[h].admin, handlers[h].note))
               ELSE sent
    /\ handlers' = [handlers EXCEPT ![h].pc = "done", ![h].exc = (fail # "none")]
    /\ UNCHANGED user_broadcasts
    /\ UNCHANGED bcFrame

\* One copy_message of the fan-out returns, or raises into its try/except
\* (lines 1113-1122); after the last one the status is written (line 1124)
\* and the handler runs to the reply to the admin.
BCopy(h, fail) ==
    /\ handlers[h].pc = "fanout"
    /\ fail \in {"none", "copy", "update"}
    /\ LET todo == handlers[h].todo
           u == CHOOSE x \in todo : \A y \in todo : x <= y
           last == todo = {u}
       IN  /\ fail = "update" => last
           /\ sent' = IF fail = "copy" THEN sent ELSE Append(sent, Msg(u, "user_bc_copy"))
           /\ user_broadcasts' =
                 IF last /\ fail # "update"
                 THEN UpdateBroadcast(user_broadcasts, handlers[h].bid, "approved")
                 ELSE user_broadcasts
           /\ handlers' = [handlers EXCEPT
                 ![h].todo = todo \ {u},
                 ![h].pc = IF ~last THEN "fanout"
                           ELSE IF fail = "update" THEN "done" ELSE "reply",
                 ![h].exc = (fail = "update")]
    /\ UNCHANGED bcFrame

\* The reply to the admin (lines 1125, 1144) is delivered, or raises.
BReply(h, fail) ==
    /\ handlers[h].pc = "reply"
    /\ fail \in {"none", "send_admin"}
    /\ sent' = IF fail = "none"
               THEN Append(sent, Msg(handlers[h].admin,
                        IF handlers[h].kind = "approve" THEN "bc_approved_admin"
                        ELSE "bc_rejected_admin"))
               ELSE sent
    /\ handlers' = [handlers EXCEPT
            ![h].pc = IF fail = "none" THEN "notify" ELSE "done",
            ![h].exc = (fail # "none")]
    /\ UNCHANGED user_broadcasts
    /\ UNCHANGED bcFrame

\* The notice to the sender of the request (lines 1127-1134, 1145-1152) is
\* delivered, or raises into its try/except.
BNotify(h, fail) ==
    /\ handlers[h].pc = "notify"
    /\ fail \in {"none", "send_user"}
    /\ sent' = IF fail = "none"
               THEN Append(sent, Msg(handlers[h].row.user_id,
                        IF handlers[h].kind = "approve" THEN "bc_approved_user"
                        ELSE "bc_rejected_user"))
               ELSE sent
    /\ handlers' = [handlers EXCEPT ![h].pc = "done"]
    /\ UNCHANGED user_broadcasts
    /\ UNCHANGED bcFrame

\* Users 2 and 3 are classified in the same faculty, user 2 has an approved
\* upload, has pressed menu_user_bc and sent message 1 as a broadcast request;
\* no admin has looked at it yet.
InitBcRequested ==
    /\ users = [u \in Users |-> IF u \in {2, 3} THEN SeedProfile ELSE NoProfile]
    /\ user_stats = [u \in Users |-> IF u = 2 THEN 1 ELSE 0]
    /\ pending_uploads = <<SeedUpload(2, 1, "approved")>>
    /\ materials = {SeedMaterial}
    /\ material_seq = 1
    /\ chat_sessions = <<>>
    /\ chat_messages = <<>>
    /\ user_broadcasts = <<[user_id |-> 2, faculty |-> SeedProfile.faculty,
                            major |-> SeedProfile.major,
                            entry_year |-> SeedProfile.entry_year,
                            message_chat_id |-> 2, message_id |-> 1,
                            status |-> "pending"]>>
    /\ archive = <<1>>
    /\ user_state = [u \in Users |-> "none"]
    /\ tmp = [u \in Users |-> NoTmp]
    /\ search_state = [u \in Users |-> FALSE]
    /\ waiting_queue = <<>>
    /\ active_chat = [u \in Users |-> 0]
    /\ active_session = [u \in Users |-> 0]
    /\ admin_broadcast_mode = {}
    /\ admin_delete_mode = [u \in Users |-> FALSE]
    /\ user_broadcast_mode = [u \in Users |-> FALSE]
    /\ browse_context = {}
    /\ sent = <<>>
    /\ ev = NoEvent
    /\ handlers = [h \in Handlers |-> IdleBcHandler]

\* Broadcast approve and reject clicks dispatched concurrently, one handler
\* per click.
NextBcRace ==
    \/ \E h \in Handlers, uid \in ADMIN_IDS, kind \in {"approve", "reject"},
          bid \in BcIds, fail \in {"none", "fetch", "update"} :
            BStart(h, uid, kind, bid, fail)
    \/ \E h \in Handlers, fail \in {"none", "send_admin"} : BNotice(h, fail)
    \/ \E h \in Handlers, fail \in {"none", "copy", "update"} : BCopy(h, fail)
    \/ \E h \in Handlers, fail \in {"none", "send_admin"} : BReply(h, fail)
    \/ \E h \in Handlers, fail \in {"none", "send_user"} : BNotify(h, fail)

SpecBcRace == InitBcRequested /\ [][NextBcRace]_vars

\* Events dispatched one after another: starting with the admin and user 2
\* paired, every user presses the join, cancel and end buttons in any order.
NextSession ==
    \/ \E uid \in Users, fail \in JoinFails : ChatJoin(uid, fail)
    \/ \E uid \in Users, fail \in ReplyFails : ChatCancel(uid, fail)
    \/ \E uid \in Users, fail \in EndFails : ChatEnd(uid, fail)

SpecSession == InitPaired /\ [][NextSession]_vars

(***************************************************************************)
(* The chat_join and chat_cancel branches of buttons, run piecewise.  A    *)
(* handler is suspended at cq.answer() (line 640), before it has read       *)
(* anything, and at each message it sends after it has changed the queue   *)
(* and the maps; between two awaits it runs alone.                         *)
(***************************************************************************)
IdleQueueHandler ==
    [pc |-> "idle", kind |-> "none", uid |-> 0, removed |-> FALSE, out |-> <<>>,
     exc |-> FALSE]

queueFrame == <<users, modVars, user_broadcasts, chat_messages, modeVars, ev>>

\* The click arrives and cq.answer() is awaited (lines 639-640).
QStart(h, uid, kind, fail) ==
    /\ handlers[h].pc = "idle"
    /\ kind \in {"join", "cancel"}
    /\ fail \in {"none", "answer"}
    /\ handlers' = [handlers EXCEPT ![h] =
            [IdleQueueHandler EXCEPT !.kind = kind, !.uid = uid,
                                     !.pc = IF fail = "none" THEN "answered" ELSE "done",
                                     !.exc = (fail # "none")]]
    /\ UNCHANGED <<waiting_queue, active_chat, active_session, chat_sessions, sent>>
    /\ UNCHANGED queueFrame

\* The handler runs from cq.answer() to its next await: the whole of lines
\* 924-957 for a join, lines 972-973 for a cancel.
QRun(h, fail) ==
    /\ handlers[h].pc = "answered"
    /\ fail \in {"none", "insert"}
    /\ LET uid == handlers[h].uid
           scan == ScanQueue(waiting_queue, uid, active_chat)
           partner == scan.partner
           sid == Len(chat_sessions) + 1
           sends(msgs) == [handlers EXCEPT ![h].pc = "send", ![h].out = msgs]
       IN  IF handlers[h].kind = "cancel"
           THEN /\ fail = "none"
                /\ waiting_queue' = IF InQueue(uid) THEN RemoveFirst(waiting_queue, uid)
                                    ELSE waiting_queue
                /\ handlers' = [sends(<<Msg(uid, "cancelled")>>) EXCEPT
                                    ![h].removed = InQueue(uid)]
                /\ UNCHANGED <<active_chat, active_session, chat_sessions>>
           ELSE IF InChat(uid)
           THEN /\ fail = "none"
                /\ handlers' = [handlers EXCEPT ![h].pc = "done"]
                /\ UNCHANGED <<waiting_queue, active_chat, active_session, chat_sessions>>
           ELSE IF InQueue(uid)
           THEN /\ fail = "none"
                /\ handlers' = sends(<<Msg(uid, "already_waiting")>>)
                /\ UNCHANGED <<waiting_queue, active_chat, active_session, chat_sessions>>
           ELSE IF partner = 0
           THEN /\ fail = "none"
                /\ waiting_queue' = Append(scan.rest, uid)
                /\ handlers' = sends(<<Msg(uid, "waiting")>>)
                /\ UNCHANGED <<active_chat, active_session, chat_sessions>>
           ELSE /\ Len(chat_sessions) < MaxSessions
                /\ waiting_queue' = scan.rest
                /\ IF fail = "insert"
                   THEN /\ handlers' = [handlers EXCEPT ![h].pc = "done", ![h].exc = TRUE]
                        /\ UNCHANGED <<active_chat, active_session, chat_sessions>>
                   ELSE /\ chat_sessions' = Append(chat_sessions, NewSession(uid, partner))
                        /\ active_chat' = SetPair(active_chat, uid, partner, partner, uid)
                        /\ active_session' = SetPair(active_session, uid, partner, sid, sid)
                        /\ handlers' = sends(<<Msg(uid, PairedText(partner)),
                                               Msg(partner, PairedText(uid))>>)
    /\ UNCHANGED sent
    /\ UNCHANGED queueFrame

\* The next message of the handler is delivered, or the call raises and the
\* handler is aborted.
QSend(h, fail) ==
    /\ handlers[h].pc = "send"
    /\ fail \in {"none", "send"}
    /\ sent' = IF fail = "none" THEN Append(sent, Head(handlers[h].out)) ELSE sent
    /\ handlers' = [handlers EXCEPT
            ![h].out = IF fail = "none" THEN Tail(@) ELSE <<>>,
            ![h].pc = IF fail = "none" /\ Len(handlers[h].out) > 1 THEN "send" ELSE "done",
            ![h].exc = (fail # "none")]
    /\ UNCHANGED <<waiting_queue, active_chat, active_session, chat_sessions>>
    /\ UNCHANGED queueFrame

\* As InitApproved, and then user 2 pressed the join button and is waiting.
InitWaiting ==
    /\ users = [u \in Users |-> IF u = 2 THEN SeedProfile ELSE NoProfile]
    /\ user_stats = [u \in Users |-> IF u = 2 THEN 1 ELSE 0]
    /\ pending_uploads = <<SeedUpload(2, 1, "approved")>>
    /\ materials = {SeedMaterial}
    /\ material_seq = 1
    /\ chat_sessions = <<>>
    /\ chat_messages = <<>>
    /\ user_broadcasts = <<>>
    /\ archive = <<1>>
    /\ user_state = [u \in Users |-> "none"]
    /\ tmp = [u \in Users |-> NoTmp]
    /\ search_state = [u \in Users |-> FALSE]
    /\ waiting_queue = <<2>>
    /\ active_chat = [u \in Users |-> 0]
    /\ active_session = [u \in Users |-> 0]
    /\ admin_broadcast_mode = {}
    /\ admin_delete_mode = [u \in Users |-> FALSE]
    /\ user_broadcast_mode = [u \in Users |-> FALSE]
    /\ browse_context = {}
    /\ sent = <<>>
    /\ ev = NoEvent
    /\ handlers = [h \in Handlers |-> IdleQueueHandler]

\* Join and cancel clicks dispatched concurrently, one handler per click.
NextQueueRace ==
    \/ \E h \in Handlers, uid \in Users, kind \in {"join", "cancel"},
          fail \in {"none", "answer"} : QStart(h, uid, kind, fail)
    \/ \E h \in Handlers, fail \in {"none", "insert"} : QRun(h, fail)
    \/ \E h \in Handlers, fail \in {"none", "send"} : QSend(h, fail)

SpecQueueRace == InitWaiting /\ [][NextQueueRace]_vars

\* Events dispatched one after another: users 2 and 3 press the
\* classification buttons, with indices inside and outside the lists, in any
\* order, on a fresh database.
NextClassify ==
    \/ \E uid \in {2, 3}, idx \in IdxChoices, fail \in UsrFails : UsrFac(uid, idx, fail)
    \/ \E uid \in {2, 3}, idx \in IdxChoices, fail \in UsrFails : UsrMaj(uid, idx, fail)
    \/ \E uid \in {2, 3}, year \in YearChoices, fail \in UsrFails : UsrYear(uid, year, fail)

SpecClassify == InitFresh /\ [][NextClassify]_vars

\* A PDF and a title.
SnapshotMessages == {m \in Messages : m.message_id = 1 /\ (m.kind = "pdf" \/ m.text = "hi")}

\* Events dispatched one after another: user 2, who is classified in the
\* first faculty, walks the upload wizard and at any moment moves to the
\* second faculty, picks one of its majors or the other year, and the admin
\* approves.  No call raises, except the notices of the approval.
NextSnapshot ==
    \/ MenuUpload(2, "none")
    \/ \E m \in SnapshotMessages : OnMessage(2, m, "none")
    \/ UsrFac(2, 1, "none")
    \/ \E idx \in {0, 1} : UsrMaj(2, idx, "none")
    \/ UsrYear(2, ENTRY_YEARS[2], "none")
    \/ \E id \in UploadIds, fail \in {"none", "send_admin", "send_user"} :
            ApproveUpload(1, id, fail)

SpecSnapshot == InitClassified /\ [][NextSnapshot]_vars

(***************************************************************************)
(* The admin buttons as buttons dispatches them: every admin branch tests  *)
(* is_admin(uid) next to its tag, so the click of anybody else runs down   *)
(* to the fallback at the end of buttons (lines 1241-1244).                *)
(***************************************************************************)
\* The copy_message calls of the fan-out of ubappr, in the order of the
\* user ids.
RECURSIVE BcCopies(_)
BcCopies(S) ==
    IF S = {} THEN <<>>
    ELSE LET u == CHOOSE x \in S : \A y \in S : x <= y
         IN  <<Msg(u, "user_bc_copy")>> \o BcCopies(S \ {u})

BcFails == {"none", "fetch", "copy", "update", "send_admin", "send_user"}

\* buttons, data = "ubappr|<id>" or "ubrej|<id>" from an admin, as a whole
\* (lines 1099-1153); with fail = "copy" every copy_message of the fan-out
\* raises into its try/except.
BcModerate(uid, kind, bid, fail) ==
    /\ is_admin(uid)
    /\ fail \in BcFails
    /\ LET has == HasPendingBroadcast(user_broadcasts, bid)
           row == user_broadcasts[bid]
           status == IF kind = "ubappr" THEN "approved" ELSE "rejected"
           copies == IF kind = "ubrej" \/ fail = "copy" THEN <<>>
                     ELSE BcCopies(Recipients(FacultyOf(row)))
           admin == Msg(uid, IF kind = "ubappr" THEN "bc_approved_admin"
                             ELSE "bc_rejected_admin")
           user == Msg(row.user_id, IF kind = "ubappr" THEN "bc_approved_user"
                                    ELSE "bc_rejected_user")
           note(text) ==
               /\ fail \in {"none", "send_admin"}
               /\ sent' = IF fail = "none" THEN <<Msg(uid, text)>> ELSE <<>>
               /\ ev' = Event(kind, uid, bid, fail # "none")
               /\ UNCHANGED user_broadcasts
       IN  IF fail = "fetch"
           THEN /\ sent' = <<>>
                /\ ev' = Event(kind, uid, bid, TRUE)
                /\ UNCHANGED user_broadcasts
           ELSE IF ~has
           THEN note("already_resolved")
           ELSE IF kind = "ubappr" /\ FacultyOf(row) = NULL
           THEN note("no_faculty")
           ELSE /\ fail = "copy" => kind = "ubappr"
                /\ user_broadcasts' = IF fail = "update" THEN user_broadcasts
                                      ELSE UpdateBroadcast(user_broadcasts, bid, status)
                /\ sent' = CASE fail = "update" -> copies
                             [] fail = "send_admin" -> copies
                             [] fail = "send_user" -> copies \o <<admin>>
                             [] OTHER -> copies \o <<admin, user>>
                /\ ev' = Event(kind, uid, bid, fail \in {"update", "send_admin"})
    /\ UNCHANGED <<users, modVars, chat_sessions, chat_messages, modeVars>>
    /\ UNCHANGED <<waiting_queue, active_chat, active_session, handlers>>

\* The end of buttons (lines 1241-1244): no branch has taken the click.
ButtonFallback(kind, uid, fail) ==
    /\ Reply(kind, uid, HomeView(uid), fail)
    /\ UNCHANGED <<dbVars, modeVars, waiting_queue, active_chat, active_session, handlers>>

AdminTags == {"appr", "rej", "ubappr", "ubrej", "admin_delete", "admin_broadcast",
              "admin_search_mat"}

\* A click on a button of the admin panel or of a moderation card, by
\* anybody: `data ... and is_admin(uid)` (lines 989, 993, 1027, 1036, 1050,
\* 1099, 1137), else the fallback.  id is the number the tag carries.
AdminButton(uid, tag, id, fail) ==
    IF ~is_admin(uid)
    THEN ButtonFallback(tag, uid, fail)
    ELSE CASE tag = "appr" -> ApproveUpload(uid, id, fail)
           [] tag = "rej" -> RejectUpload(uid, id, fail)
           [] tag \in {"ubappr", "ubrej"} -> BcModerate(uid, tag, id, fail)
           [] tag = "admin_delete" -> id = 1 /\ AdminDelete(uid, fail)
           [] tag = "admin_broadcast" -> id = 1 /\ AdminBroadcast(uid, fail)
           [] tag = "admin_search_mat" -> id = 1 /\ AdminSearchMat(uid, fail)

\* As InitBcRequested, and user 2 has walked the upload wizard a second time:
\* one submission and one broadcast request are pending.
InitOpenRequests ==
    /\ users = [u \in Users |-> IF u \in {2, 3} THEN SeedProfile ELSE NoProfile]
    /\ user_stats = [u \in Users |-> IF u = 2 THEN 1 ELSE 0]
    /\ pending_uploads = <<SeedUpload(2, 1, "approved"), SeedUpload(2, 2, "pending")>>
    /\ materials = {SeedMaterial}
    /\ material_seq = 1
    /\ chat_sessions = <<>>
    /\ chat_messages = <<>>
    /\ user_broadcasts = <<[user_id |-> 2, faculty |-> SeedProfile.faculty,
                            major |-> SeedProfile.major,
                            entry_year |-> SeedProfile.entry_year,
                            message_chat_id |-> 2, message_id |-> 1,
                            status |-> "pending"]>>
    /\ archive = <<1>>
    /\ InitMemory

AdminFails == ApproveFails \cup RejectFails \cup BcFails \cup ReplyFails

\* A number and a text that is not a number.
PayloadMessages == {m \in Messages : m.message_id = 1 /\ m.text \in {"1", "hi"}}

\* Events dispatched one after another: the admin and the two other users
\* press the admin buttons and write.
NextAdminOnly ==
    \/ \E uid \in Users, tag \in AdminTags, id \in {1, 2}, fail \in AdminFails :
            AdminButton(uid, tag, id, fail)
    \/ \E uid \in Users, m \in PayloadMessages, fail \in MsgFails : OnMessage(uid, m, fail)

SpecAdminOnly == InitOpenRequests /\ [][NextAdminOnly]_vars

\* Events dispatched one after another with no call raising: user 2 walks the
\* upload wizard, and the admin approves, rejects and deletes catalog entries
\* by id.
NextCounter ==
    \/ MenuUpload(2, "none")
    \/ \E m \in SnapshotMessages : OnMessage(2, m, "none")
    \/ \E id \in UploadIds : ApproveUpload(1, id, "none")
    \/ \E id \in UploadIds : RejectUpload(1, id, "none")
    \/ AdminDelete(1, "none")
    \/ \E m \in ModerationMessages : OnMessage(1, m, "none")

SpecCounter == InitClassified /\ [][NextCounter]_vars

\* Events dispatched one after another: starting with the admin and user 2
\* paired, every user joins, cancels, ends and writes a text, in any order.
NextSessionLog ==
    \/ \E uid \in Users, fail \in JoinFails : ChatJoin(uid, fail)
    \/ \E uid \in Users, fail \in ReplyFails : ChatCancel(uid, fail)
    \/ \E uid \in Users, fail \in EndFails : ChatEnd(uid, fail)
    \/ \E uid \in Users, m \in EndMessages, fail \in MsgFails : OnMessage(uid, m, fail)

SpecSessionLog == InitPaired /\ [][NextSessionLog]_vars

(***************************************************************************)
(* Properties.                                                             *)
(***************************************************************************)
ArchiveCopiesOf(i) ==
    {k \in 1..Len(archive) : archive[k] = pending_uploads[i].user_message_id}

ApprovedUploadsOf(uid) ==
    {i \in 1..Len(pending_uploads) :
        pending_uploads[i].submitter_id = uid /\ pending_uploads[i].status = "approved"}

NoHandlerRaised == \A h \in Handlers : ~handlers[h].exc

\* C1: under concurrent dispatch of approve clicks, as long as no call has
\* raised, every submission is copied to the archive at most once, the
\* catalog holds at most one entry per approved submission, and a
\* submitter's counter is at most the number of that submitter's approved
\* submissions (each approval counts once).
C1_ApproveAtMostOnce ==
    NoHandlerRaised =>
        /\ \A i \in 1..Len(pending_uploads) : Cardinality(ArchiveCopiesOf(i)) <= 1
        /\ Cardinality(materials)
               <= Cardinality(UNION {ApprovedUploadsOf(u) : u \in Users})
        /\ \A u \in Users : user_stats[u] <= Cardinality(ApprovedUploadsOf(u))

\* C2: under every interleaving of approve and reject handlers, a status
\* that is approved or rejected is never written again.
C2_StatusWrittenOnce ==
    [][\A i \in 1..Len(pending_uploads) :
          pending_uploads[i].status # "pending"
              => pending_uploads'[i].status = pending_uploads[i].status]_vars

IsPendingId(id) ==
    id \in 1..Len(pending_uploads) /\ pending_uploads[id].status = "pending"

\* C3: with events handled one after another, an approve or reject of an id
\* that is unknown or already approved/rejected changes no submission, no
\* catalog entry, no counter and copies nothing to the archive, and unless
\* the delivery fails the admin gets the "already resolved" notice and
\* nobody anything else.
C3_ResolvedIsNoOp ==
    [][(ev'.kind \in {"appr", "rej"} /\ ~IsPendingId(ev'.arg))
          => /\ UNCHANGED <<pending_uploads, materials, material_seq, user_stats, archive>>
             /\ ~ev'.exc => sent' = <<Msg(ev'.uid, "already_resolved")>>]_vars

\* An approve or reject of an approved submission got the notice.
C3_Witness ==
    /\ ev.kind \in {"appr", "rej"}
    /\ ~ev.exc
    /\ ev.arg \in 1..Len(pending_uploads)
    /\ pending_uploads[ev.arg].status = "approved"
    /\ sent = <<Msg(ev.uid, "already_resolved")>>

\* C4: no user is both in the waiting queue and a key of the pairing map.
C4_QueueDisjointFromPairs ==
    \A u \in Users : ~(InQueue(u) /\ InChat(u))

\* A join has paired two users after a third one went through the queue.
C4_Witness ==
    /\ ev.kind = "chat_join"
    /\ InChat(ev.uid)
    /\ \E w \in Users : InQueue(w)

\* C5: the pairing map is symmetric.
C5_PairingSymmetric ==
    \A a, b \in Users : (active_chat[a] = b) <=> (active_chat[b] = a)

\* Two users are paired, and a pair has been taken apart before.
C5_Witness ==
    /\ \E a, b \in Users : a # b /\ active_chat[a] = b
    /\ \E i \in 1..Len(chat_sessions) : chat_sessions[i].status = "ended"

\* The joiner, then the partner, got the "paired" notice, with or without
\* the badge of the other one.
PairedNotices(out, joiner, partner) ==
    /\ Len(out) = 2
    /\ out[1].to = joiner
    /\ out[2].to = partner
    /\ \A i \in 1..2 : out[i].text \in {"paired", "paired_badge"}

\* C10: a join that raises nothing, by a user who is not paired: on an empty
\* queue it leaves the joiner as the only entry and tells the joiner
\* "waiting"; on a queue that holds one other unpaired user it pairs the
\* two both ways, empties the queue and sends both the "paired" notice.
C10_JoinScenario ==
    [][\A a, b \in Users :
          (ev'.kind = "chat_join" /\ ev'.uid = b /\ ~ev'.exc /\ ~InChat(b) /\ a # b)
          => /\ waiting_queue = <<>>
                => /\ waiting_queue' = <<b>>
                   /\ sent' = <<Msg(b, "waiting")>>
                   /\ UNCHANGED active_chat
             /\ (waiting_queue = <<a>> /\ ~InChat(a))
                => /\ waiting_queue' = <<>>
                   /\ active_chat'[a] = b
                   /\ active_chat'[b] = a
                   /\ PairedNotices(sent', b, a)]_vars

\* The second join of the scenario has happened.
C10_Witness ==
    /\ ev.kind = "chat_join"
    /\ ~ev.exc
    /\ waiting_queue = <<>>
    /\ InChat(ev.uid)
    /\ PairedNotices(sent, ev.uid, active_chat[ev.uid])
    /\ Len(chat_sessions) = 1

\* The state that lives in the process: modes, wizard, queue and pairing.
memoryVars == <<user_state, tmp, search_state, admin_broadcast_mode,
                admin_delete_mode, user_broadcast_mode, browse_context,
                waiting_queue, active_chat, active_session>>

\* C8: an event whose handling raised leaves the conversation state, the
\* mode flags, the waiting queue and the pairing map as they were.
C8_RaisedEventChangesNothing ==
    [][ev'.exc => UNCHANGED memoryVars]_vars

\* C7: a text message of a paired sender that is handled without raising is
\* delivered verbatim to the partner, and to nobody else, and is appended to
\* the chat log under the sender's session, whatever else is armed.
C7_PairedTextIsRelayed ==
    [][(ev'.kind = "message" /\ ~ev'.exc /\ InChat(ev'.uid) /\ HasText(ev'.arg))
          => /\ sent' = <<Msg(active_chat[ev'.uid], ev'.arg.text)>>
             /\ chat_messages' = Append(chat_messages,
                    [session_id |-> active_session[ev'.uid], sender_id |-> ev'.uid,
                     msg_text |-> ev'.arg.text])]_vars

\* Nothing is armed for the user and no wizard step is open.
Idle(uid) ==
    /\ user_state[uid] = "none"
    /\ ~tmp[uid].present
    /\ ~search_state[uid]
    /\ ~user_broadcast_mode[uid]
    /\ ~admin_delete_mode[uid]
    /\ uid \notin admin_broadcast_mode

\* C9: after the back-to-menu button the sender is idle.
C9_BackMenuClears ==
    [][\A uid \in Users :
          (ev'.kind = "back_menu" /\ ev'.uid = uid /\ ~ev'.exc) => Idle(uid)']_vars

EntryKinds == {"menu_search", "search_by_name", "search_browse", "menu_upload",
               "menu_user_bc", "menu_chat", "chat_join"}

\* C6: a button that starts or performs search, upload, broadcast or chat,
\* pressed by a user whose classification is incomplete, arms no search, opens
\* no wizard step, arms no broadcast draft, and neither queues nor pairs the
\* user.
C6_UnclassifiedIsRefused ==
    [][\A uid \in Users :
          (ev'.kind \in EntryKinds /\ ev'.uid = uid /\ ~user_configured(uid))
             => /\ search_state'[uid] = search_state[uid]
                /\ user_state'[uid] = user_state[uid]
                /\ user_broadcast_mode'[uid] = user_broadcast_mode[uid]
                /\ InQueue(uid)' = InQueue(uid)
                /\ active_chat'[uid] = active_chat[uid]]_vars

\* The positions of the queue q that hold a user other than uid who is not
\* chatting.
EligibleAt(q, uid, chats) == {i \in 1..Len(q) : q[i] # uid /\ chats[q[i]] = 0}

FirstOf(S) == CHOOSE i \in S : \A j \in S : i <= j

\* C11: a join that pairs the joiner pairs them with the eligible entry nearest
\* the head of the queue as it was before the join, and the entries behind
\* that one stay queued in their order.
C11_PairsWithFirstEligible ==
    [][\A uid \in ScanUsers :
          (ev'.kind = "chat_join" /\ ev'.uid = uid /\ ~InChat(uid) /\ InChat(uid)')
             => LET elig == EligibleAt(waiting_queue, uid, active_chat)
                    k == FirstOf(elig)
                IN  /\ elig # {}
                    /\ active_chat'[uid] = waiting_queue[k]
                    /\ waiting_queue' = SubSeq(waiting_queue, k + 1, Len(waiting_queue))]_vars

\* A join has paired the joiner and two users are still waiting: three were
\* waiting before it.
C11_Witness ==
    /\ ev.kind = "chat_join"
    /\ ~ev.exc
    /\ InChat(ev.uid)
    /\ Len(waiting_queue) = 2
    /\ \A i \in 1..2 : ~InChat(waiting_queue[i])
    /\ Len(chat_sessions) = 1

\* C12: when a paired user A with partner B ends the chat and the handler is
\* not aborted, both map entries are removed, their session is marked ended
\* with an end timestamp, and what is delivered is the "you ended" notice to A
\* followed by the different "partner left" notice to B (a notice is missing
\* only when its delivery failed).
C12_EndRemovesPairAndNotifies ==
    [][\A uid \in Users :
          (ev'.kind = "chat_end" /\ ev'.uid = uid /\ active_chat[uid] # 0 /\ ~ev'.exc)
             => LET partner == active_chat[uid]
                    sid == active_session[uid]
                    mine == Msg(uid, "you_ended")
                    theirs == Msg(partner, "partner_left")
                IN  /\ active_chat'[uid] = 0 /\ active_chat'[partner] = 0
                    /\ active_session'[uid] = 0 /\ active_session'[partner] = 0
                    /\ chat_sessions'[sid].status = "ended"
                    /\ chat_sessions'[sid].ended_at # NULL
                    /\ sent' \in {<<mine, theirs>>, <<mine>>, <<theirs>>}]_vars

\* A paired user has ended the chat and both notices were delivered.
C12_Witness ==
    /\ ev.kind = "chat_end"
    /\ ~ev.exc
    /\ Len(sent) = 2
    /\ sent[1] = Msg(ev.uid, "you_ended")
    /\ sent[2].text = "partner_left"
    /\ sent[2].to # ev.uid
    /\ ~InChat(ev.uid) /\ ~InChat(sent[2].to)
    /\ \E sid \in 1..Len(chat_sessions) :
          /\ chat_sessions[sid].status = "ended"
          /\ {chat_sessions[sid].user_a, chat_sessions[sid].user_b} = {ev.uid, sent[2].to}

\* C13: the end button pressed by a user with an active pairing removes the
\* pairing of both users, whatever wizard step, search state or mode is set
\* for that user.
C13_EndAlwaysTerminates ==
    [][\A uid \in Users :
          (ev'.kind = "chat_end" /\ ev'.uid = uid /\ active_chat[uid] # 0)
             => /\ active_chat'[uid] = 0
                /\ active_chat'[active_chat[uid]] = 0
                /\ active_session'[uid] = 0
                /\ active_session'[active_chat[uid]] = 0]_vars

\* User 2 has ended the chat while the upload wizard, the search state and
\* the broadcast draft were all set for them.
C13_Witness ==
    /\ ev.kind = "chat_end"
    /\ ev.uid = 2
    /\ active_chat[1] = 0 /\ active_chat[2] = 0
    /\ chat_sessions[1].status = "ended"
    /\ user_state[2] = "await_pdf"
    /\ search_state[2]
    /\ user_broadcast_mode[2]

\* C14: when a join pairs two users and no "paired" notice reaches the
\* joiner, the candidate still gets its "paired" notice.
C14_CandidateStillNotified ==
    [][\A uid \in Users :
          (/\ ev'.kind = "chat_join" /\ ev'.uid = uid
           /\ active_chat[uid] = 0 /\ active_chat'[uid] # 0
           /\ \A i \in 1..Len(sent') : sent'[i].to # uid)
             => \E i \in 1..Len(sent') :
                   /\ sent'[i].to = active_chat'[uid]
                   /\ sent'[i].text \in {"paired", "paired_badge"}]_vars

\* The calls of approve_upload that deliver something: the copy to the
\* archive channel and the two notices.
ApproveDeliveries == {"copy", "send_admin", "send_user"}

\* C15: an approve of a pending submission during which a delivery fails
\* still sets the submission's status to approved.
C15_DeliveryFailureKeepsTransition ==
    [][\A id \in UploadIds, fail \in ApproveDeliveries :
          (HasPendingRow(pending_uploads, id) /\ ApproveUpload(1, id, fail))
             => pending_uploads'[id].status = "approved"]_vars

DeleteReplies == {"delete_bad_input", "delete_not_found", "deleted"}

C17_SearchTakesMessage ==
    [][\A uid \in Users :
          (/\ ev'.kind = "message" /\ ev'.uid = uid
           /\ search_state[uid]
           /\ active_chat[uid] = 0
           /\ ~(is_admin(uid) /\ (admin_delete_mode[uid] \/ uid \in admin_broadcast_mode)))
             => /\ ~search_state'[uid]
                /\ UNCHANGED <<user_state, tmp, pending_uploads>>
                /\ UNCHANGED <<user_broadcast_mode, user_broadcasts>>]_vars

\* C18: a join by a user who is chatting or already waiting changes neither
\* the queue nor the pairing map and creates no session; the waiting user is
\* told "already waiting".
C18_RepeatedJoinChangesNothing ==
    [][\A uid \in Users :
          (/\ ev'.kind = "chat_join" /\ ev'.uid = uid
           /\ (active_chat[uid] # 0 \/ uid \in SeqRange(waiting_queue)))
             => /\ UNCHANGED <<waiting_queue, active_chat, active_session, chat_sessions>>
                /\ (active_chat[uid] = 0 /\ ~ev'.exc)
                     => sent' = <<Msg(uid, "already_waiting")>>
                /\ active_chat[uid] # 0 => sent' = <<>>]_vars

\* A waiting user has pressed join again and was told so.
C18_Witness ==
    /\ ev.kind = "chat_join"
    /\ sent = <<Msg(ev.uid, "already_waiting")>>
    /\ waiting_queue = <<ev.uid>>
    /\ active_chat[ev.uid] = 0

\* C19: a cancel by a user who is not waiting changes neither the queue nor
\* the pairing map nor a session, and the actor is not told that the wait was
\* cancelled.
C19_CancelWhenNotWaitingIsNoOp ==
    [][\A uid \in Users :
          (/\ ev'.kind = "chat_cancel" /\ ev'.uid = uid
           /\ uid \notin SeqRange(waiting_queue))
             => /\ UNCHANGED <<waiting_queue, active_chat, active_session, chat_sessions>>
                /\ \A i \in 1..Len(sent') : sent'[i].text # "cancelled"]_vars

\* C20: a reject of a pending submission that is not aborted sets its status
\* to rejected, leaves the catalog, the archive and every counter as they
\* were, and notifies the admin and then the submitter (whose notice is
\* missing only when its delivery failed).
C20_RejectLeavesCatalogAndCounters ==
    [][\A id \in UploadIds :
          (/\ ev'.kind = "rej" /\ ev'.arg = id /\ ~ev'.exc
           /\ id \in 1..Len(pending_uploads)
           /\ pending_uploads[id].status = "pending")
             => /\ pending_uploads'[id].status = "rejected"
                /\ UNCHANGED <<materials, material_seq, archive, user_stats>>
                /\ sent' \in {<<Msg(ev'.uid, "rejected_admin"),
                                Msg(pending_uploads[id].submitter_id, "rejected_user")>>,
                              <<Msg(ev'.uid, "rejected_admin")>>}]_vars

\* A submission has just been rejected and its submitter told so.
C20_Witness ==
    /\ ev.kind = "rej"
    /\ ~ev.exc
    /\ ev.arg \in 1..Len(pending_uploads)
    /\ pending_uploads[ev.arg].status = "rejected"
    /\ Len(sent) = 2
    /\ sent[2] = Msg(pending_uploads[ev.arg].submitter_id, "rejected_user")
    /\ materials = {}
    /\ \A u \in Users : user_stats[u] = 0

\* The submissions a catalog entry was copied from: the archive message of
\* the entry is the copy of their file.
SourcesOf(entry) ==
    {i \in 1..Len(pending_uploads) :
        /\ entry.archive_message_id \in 1..Len(archive)
        /\ pending_uploads[i].user_message_id = archive[entry.archive_message_id]
        /\ pending_uploads[i].submitter_id = entry.added_by}

\* C21: every catalog entry that exists was created from a submission whose
\* status is approved.
C21_EntriesComeFromApproved ==
    \A entry \in materials :
        \E i \in SourcesOf(entry) : pending_uploads[i].status = "approved"

\* The message of the step just taken created a submission in the attribution
\* step of uid's wizard.
SubmittedBy(uid) ==
    /\ ev'.kind = "message" /\ ev'.uid = uid
    /\ user_state[uid] = "await_prof"
    /\ Len(pending_uploads') = Len(pending_uploads) + 1

\* C22 as stated: the text "-" gives a submission without attribution, and
\* any other text is stored as the attribution.
C22_OnlyHyphenIsSentinel ==
    [][\A uid \in Users :
          SubmittedBy(uid)
             => pending_uploads'[Len(pending_uploads')].professor_name
                  = (IF ev'.arg.text = "-" THEN NULL ELSE ev'.arg.text)]_vars

\* C22, amended: the text is stripped of surrounding white space; "-" and the
\* em dash then give a submission without attribution, and any other text is
\* stored, stripped, as the attribution.
C22_SentinelIsNormalised ==
    [][\A uid \in Users :
          SubmittedBy(uid)
             => pending_uploads'[Len(pending_uploads')].professor_name
                  = (IF Strip(ev'.arg.text) \in {"-", "emdash"} THEN NULL
                     ELSE Strip(ev'.arg.text))]_vars

\* A submission was just created from the attribution "-" and has none.
C22_Witness ==
    /\ ev.kind = "message"
    /\ ev.arg.kind = "text"
    /\ ev.arg.text = "-"
    /\ Len(pending_uploads) >= 1
    /\ pending_uploads[Len(pending_uploads)].professor_name = NULL
    /\ pending_uploads[Len(pending_uploads)].course_name # NULL
    /\ Len(sent) >= 1
    /\ sent[1] = Msg(ev.uid, "upload_received")

\* No mode and no chat stands before the wizard for uid's next message.
WizardIsNext(uid) ==
    /\ ~admin_delete_mode[uid]
    /\ uid \notin admin_broadcast_mode
    /\ ~user_broadcast_mode[uid]
    /\ active_chat[uid] = 0
    /\ ~search_state[uid]

\* C23: a text that completes the attribution step appends exactly one
\* submission, pending and built from the scratch record, and leaves the user
\* without wizard step and without scratch record; a message outside the
\* attribution step creates no submission.
C23_WizardSubmitsOnce ==
    [][\A uid \in Users :
          (ev'.kind = "message" /\ ev'.uid = uid /\ WizardIsNext(uid))
             => /\ (user_state[uid] = "await_prof" /\ HasText(ev'.arg) /\ ~ev'.exc)
                     => /\ Len(pending_uploads') = Len(pending_uploads) + 1
                        /\ SubSeq(pending_uploads', 1, Len(pending_uploads)) = pending_uploads
                        /\ LET new == pending_uploads'[Len(pending_uploads')]
                               data == tmp[uid]
                           IN  /\ new.status = "pending"
                               /\ new.submitter_id = uid
                               /\ new.user_chat_id = data.user_chat_id
                               /\ new.user_message_id = data.user_message_id
                               /\ new.faculty = data.faculty
                               /\ new.major = data.major
                               /\ new.entry_year = data.entry_year
                               /\ new.course_name = data.course_name
                        /\ user_state'[uid] = "none"
                        /\ tmp'[uid] = NoTmp
                /\ user_state[uid] # "await_prof" => pending_uploads' = pending_uploads]_vars

\* The wizard has just been completed for the first time: one pending
\* submission with title and attribution, and the user is idle.
C23_Witness ==
    /\ ev.kind = "message"
    /\ ~ev.exc
    /\ Len(pending_uploads) = 1
    /\ pending_uploads[1].status = "pending"
    /\ pending_uploads[1].submitter_id = ev.uid
    /\ pending_uploads[1].course_name = "hi"
    /\ pending_uploads[1].professor_name = "1"
    /\ user_state[ev.uid] = "none"
    /\ tmp[ev.uid] = NoTmp
    /\ sent[1] = Msg(ev.uid, "upload_received")

\* The copies of the request's message that were delivered to u.
BroadcastCopiesTo(u) == {i \in 1..Len(sent) : sent[i] = Msg(u, "user_bc_copy")}

\* C24: under concurrent dispatch of the clicks on one broadcast request, as
\* long as no call has raised, no recipient gets the request's message more
\* than once.
C24_FannedOutOnce ==
    NoHandlerRaised => \A u \in Users : Cardinality(BroadcastCopiesTo(u)) <= 1


\* What on_message and buttons consult about one user before anything else:
\* the wizard step and its scratch record, the search state and the modes.
ConversationState(uid) ==
    <<user_state[uid], tmp[uid], search_state[uid], user_broadcast_mode[uid],
      admin_delete_mode[uid], uid \in admin_broadcast_mode>>

\* C25: after the end button pressed by a paired user, nothing is armed for
\* that user and no wizard step is open, and the partner's conversation state
\* is what it was.
C25_LeaverIsIdle ==
    [][\A uid \in Users :
          (ev'.kind = "chat_end" /\ ev'.uid = uid /\ active_chat[uid] # 0 /\ ~ev'.exc)
             => /\ Idle(uid)'
                /\ \A p \in Users :
                      p = active_chat[uid] => ConversationState(p)' = ConversationState(p)]_vars


\* The active sessions that have uid as a participant.
ActiveSessionsOf(uid) ==
    {sid \in 1..Len(chat_sessions) :
        /\ chat_sessions[sid].status = "active"
        /\ uid \in {chat_sessions[sid].user_a, chat_sessions[sid].user_b}}

\* C26: a session row changes only from active to ended, and only in the end
\* action of one of its participants whose pairing it is; an ended row never
\* changes again; an end action by a user with no active session sends no
\* notice and changes no session and no pairing.
C26_SessionEndsOnce ==
    [][/\ Len(chat_sessions') >= Len(chat_sessions)
       /\ \A sid \in 1..Len(chat_sessions) :
             /\ chat_sessions[sid].status = "ended"
                   => chat_sessions'[sid] = chat_sessions[sid]
             /\ chat_sessions'[sid] # chat_sessions[sid]
                   => /\ chat_sessions[sid].status = "active"
                      /\ chat_sessions'[sid].status = "ended"
                      /\ ev'.kind = "chat_end"
                      /\ ev'.uid \in {chat_sessions[sid].user_a, chat_sessions[sid].user_b}
                      /\ \A uid \in Users : ev'.uid = uid => active_session[uid] = sid
       /\ \A uid \in Users :
             (ev'.kind = "chat_end" /\ ev'.uid = uid /\ ActiveSessionsOf(uid) = {})
                => /\ sent' = <<>>
                   /\ chat_sessions' = chat_sessions
                   /\ active_chat' = active_chat
                   /\ active_session' = active_session]_vars

\* A participant of an ended session has pressed the end button while another
\* session was active: nothing was sent.
C26_Witness ==
    /\ ev.kind = "chat_end"
    /\ ~ev.exc
    /\ sent = <<>>
    /\ active_chat[ev.uid] = 0
    /\ \E sid \in 1..Len(chat_sessions) :
          /\ chat_sessions[sid].status = "ended"
          /\ ev.uid \in {chat_sessions[sid].user_a, chat_sessions[sid].user_b}
    /\ \E sid \in 1..Len(chat_sessions) : chat_sessions[sid].status = "active"
    /\ \E u \in Users : active_chat[u] # 0


\* The active sessions whose two participants are a and b.
ActiveSessionsFor(a, b) ==
    {sid \in 1..Len(chat_sessions) :
        /\ chat_sessions[sid].status = "active"
        /\ {chat_sessions[sid].user_a, chat_sessions[sid].user_b} = {a, b}}

\* C27: every pair of the pairing map has exactly one active session, and
\* the participants of every active session are paired with each other.
C27_ActiveSessionsMatchPairs ==
    /\ \A a \in Users :
          active_chat[a] # 0 => Cardinality(ActiveSessionsFor(a, active_chat[a])) = 1
    /\ \A sid \in 1..Len(chat_sessions) :
          chat_sessions[sid].status = "active"
             => /\ active_chat[chat_sessions[sid].user_a] = chat_sessions[sid].user_b
                /\ active_chat[chat_sessions[sid].user_b] = chat_sessions[sid].user_a


\* C28: after a join no user is paired with themselves, the partner of a
\* user's partner is that user, and a pairing the join has made is between the
\* joiner and a user who had no partner before it.
C28_JoinPairsTwoFreeUsers ==
    [][\A uid \in ScanUsers :
          (ev'.kind = "chat_join" /\ ev'.uid = uid)
             => \A a \in ScanUsers :
                   LET p == active_chat'[a]
                   IN  /\ p # a
                       /\ p # 0 => active_chat'[p] = a
                       /\ p # active_chat[a]
                             => /\ active_chat[a] = 0
                                /\ p # 0
                                /\ active_chat[p] = 0
                                /\ uid \in {a, p}]_vars

\* A join has paired the joiner with a waiting user while two other users
\* were paired with each other: two pairs exist.
C28_Witness ==
    /\ ev.kind = "chat_join"
    /\ ~ev.exc
    /\ active_chat[ev.uid] # 0
    /\ Len(chat_sessions) = 2
    /\ Cardinality({u \in ScanUsers : active_chat[u] # 0}) = 4
    /\ active_session[ev.uid] = 2


\* The handler has run the part of its branch that reads and writes the queue.
QueuePartDone(h) == handlers[h].pc \in {"send", "done"}

\* The clicks dispatched so far are the cancel of user 2, in handler hc, and
\* the join of another user, in handler hj.
CancelRacesJoin(hc, hj) ==
    /\ handlers[hc].kind = "cancel" /\ handlers[hc].uid = 2
    /\ handlers[hj].kind = "join" /\ handlers[hj].uid # 2
    /\ \A h \in Handlers \ {hc, hj} : handlers[h].pc = "idle"

\* C29: with the cancel of the waiting user 2 and the join of another user b
\* dispatched concurrently, no paired user is in the queue and user 2 is not
\* paired when the cancel has removed them from the queue; once both handlers
\* have worked on the queue and no call has raised, either user 2 is out of
\* the queue, b waits and nobody is paired, or the two are paired, the queue
\* is empty and the cancel has removed nothing.
C29_CancelJoinNotTorn ==
    /\ \A u \in Users : active_chat[u] # 0 => u \notin SeqRange(waiting_queue)
    /\ \A hc, hj \in Handlers :
          CancelRacesJoin(hc, hj)
             => LET b == handlers[hj].uid
                IN  /\ handlers[hc].removed => active_chat[2] = 0
                    /\ (NoHandlerRaised /\ QueuePartDone(hc) /\ QueuePartDone(hj))
                          => \/ /\ handlers[hc].removed
                                /\ waiting_queue = <<b>>
                                /\ \A u \in Users : active_chat[u] = 0
                             \/ /\ ~handlers[hc].removed
                                /\ waiting_queue = <<>>
                                /\ active_chat[2] = b /\ active_chat[b] = 2
                                /\ active_session[2] = active_session[b]
                                /\ \A u \in Users \ {2, b} : active_chat[u] = 0

\* The join of user 3 ran while the cancel of user 2 was suspended in
\* cq.answer(): the two are paired, and the cancel has then found nothing to
\* remove and sent its reply.
C29_Witness ==
    \E hc, hj \in Handlers :
        /\ handlers[hc] = [IdleQueueHandler EXCEPT !.pc = "done", !.kind = "cancel", !.uid = 2]
        /\ handlers[hj].kind = "join" /\ handlers[hj].uid = 3 /\ handlers[hj].pc = "done"
        /\ ~handlers[hj].exc
        /\ active_chat[2] = 3 /\ active_chat[3] = 2
        /\ waiting_queue = <<>>
        /\ sent[1].text \in {"paired", "paired_badge"}
        /\ sent[Len(sent)] = Msg(2, "cancelled")


\* C30: a user who is in the queue before an event and not after it has
\* pressed cancel or end in that event, or has been paired in it with another
\* user who pressed join.
C30_LeavesQueueByCancelOrPairing ==
    [][\A u \in Users :
          (u \in SeqRange(waiting_queue) /\ u \notin SeqRange(waiting_queue'))
             => \/ ev'.uid = u /\ ev'.kind \in {"chat_cancel", "chat_end"}
                \/ /\ ev'.kind = "chat_join"
                   /\ ev'.uid # u
                   /\ active_chat'[u] = ev'.uid]_vars


\* Faculty, major and entry year of a profile, scratch record, submission or
\* catalog entry.
Classification(r) == <<r.faculty, r.major, r.entry_year>>

\* C31: the scratch record takes the sender's classification at the document
\* step, a new submission takes the classification of the scratch record, no
\* event changes the classification of an existing submission, and a new
\* catalog entry carries the classification of the submission approved in
\* that event.
C31_ClassificationIsSnapshot ==
    [][/\ \A u \in Users :
             (tmp'[u].present /\ ~tmp[u].present)
                => Classification(tmp'[u]) = Classification(users[u])
       /\ \A i \in 1..Len(pending_uploads') :
             IF i <= Len(pending_uploads)
             THEN Classification(pending_uploads'[i]) = Classification(pending_uploads[i])
             ELSE Classification(pending_uploads'[i])
                     = Classification(tmp[pending_uploads'[i].submitter_id])
       /\ \A e \in materials' \ materials :
             /\ ev'.kind = "appr"
             /\ Classification(e) = Classification(pending_uploads[ev'.arg])]_vars

\* The admin has approved a submission of a user whose profile was changed
\* after the document step: the new catalog entry has the classification of
\* the submission, which is not the one of the profile.
C31_Witness ==
    /\ ev.kind = "appr"
    /\ ~ev.exc
    /\ ev.arg \in 1..Len(pending_uploads)
    /\ pending_uploads[ev.arg].status = "approved"
    /\ \E e \in materials :
          /\ e.added_by = pending_uploads[ev.arg].submitter_id
          /\ Classification(e) = Classification(pending_uploads[ev.arg])
          /\ Classification(e) # Classification(users[e.added_by])


\* C32: a classification button whose index is outside the faculty list, or
\* outside the major list of the stored faculty, or whose year is outside the
\* year list, or a major button pressed with no faculty stored, leaves the
\* users table as it was and, unless the reply raises, sends the re-prompt of
\* that step; and whatever a classification button writes is an entry of the
\* list it was validated against.
C32_SelectionIsValidated ==
    [][\A uid \in Users :
          ev'.uid = uid =>
            LET refused(text) == /\ users' = users
                                 /\ ~ev'.exc => sent' = <<Msg(uid, text)>>
                faculty == users[uid].faculty
            IN  /\ (ev'.kind = "usr_fac" /\ (ev'.arg < 0 \/ ev'.arg >= Len(FACULTIES)))
                      => refused("faculty_error")
                /\ (ev'.kind = "usr_maj" /\ faculty = NULL)
                      => refused("faculty_prompt")
                /\ (/\ ev'.kind = "usr_maj" /\ faculty # NULL
                    /\ (ev'.arg < 0 \/ ev'.arg >= Len(MAJORS_BY_FACULTY[faculty])))
                      => refused("major_error")
                /\ (ev'.kind = "usr_year" /\ ev'.arg \notin SeqRange(ENTRY_YEARS))
                      => refused("year_error")
                /\ (ev'.kind = "usr_fac" /\ users' # users)
                      => users' = [users EXCEPT ![uid].faculty = FACULTIES[ev'.arg + 1]]
                /\ (ev'.kind = "usr_maj" /\ users' # users)
                      => users' = [users EXCEPT ![uid].major =
                                        MAJORS_BY_FACULTY[faculty][ev'.arg + 1]]
                /\ (ev'.kind = "usr_year" /\ users' # users)
                      => users' = [users EXCEPT ![uid].entry_year = ev'.arg]]_vars

\* A user with the first faculty stored has pressed the button of the second
\* major, which only the other faculty has, and was re-prompted.
C32_Witness ==
    /\ ev.kind = "usr_maj"
    /\ ~ev.exc
    /\ ev.arg = 1
    /\ users[ev.uid].faculty = FACULTIES[1]
    /\ users[ev.uid].major = NULL
    /\ sent = <<Msg(ev.uid, "major_error")>>


\* C38: the major stored in a profile that has a faculty is a major of that
\* faculty.
C38_MajorBelongsToFaculty ==
    \A u \in Users :
       (users[u].faculty # NULL /\ users[u].major # NULL)
          => users[u].major \in SeqRange(MAJORS_BY_FACULTY[users[u].faculty])


\* The message is not what the wizard step st asks for.
InvalidFor(st, m) ==
    \/ st = "await_pdf" /\ m.kind # "pdf"
    \/ st \in {"await_course", "await_prof"} /\ ~HasText(m)

\* C33: a message that the open wizard step does not accept leaves the step
\* and the scratch record as they were and is answered with a message to the
\* sender.
C33_InvalidInputReprompts ==
    [][\A uid \in Users :
          (/\ ev'.kind = "message" /\ ev'.uid = uid /\ ~ev'.exc
           /\ WizardIsNext(uid)
           /\ InvalidFor(user_state[uid], ev'.arg))
             => /\ user_state'[uid] = user_state[uid]
                /\ tmp'[uid] = tmp[uid]
                /\ sent' # <<>>
                /\ sent'[1].to = uid]_vars


\* C34: a message from a user with no pairing, no armed mode and no wizard
\* step is answered with the admin panel when the sender is an admin, else
\* with the user menu when the profile is complete, else with the onboarding
\* prompt.
C34_FallbackHomeView ==
    [][\A uid \in Users :
          (/\ ev'.kind = "message" /\ ev'.uid = uid /\ ~ev'.exc
           /\ Idle(uid) /\ active_chat[uid] = 0)
             => sent' = <<Msg(uid, IF is_admin(uid) THEN "admin_panel"
                                   ELSE IF user_configured(uid) THEN "main_menu"
                                   ELSE "onboarding")>>]_vars


\* C35: the queue never holds more than one user, and a join that leaves the
\* joiner waiting leaves nobody else in the queue.
C35_QueueHoldsAtMostOne ==
    /\ [](Len(waiting_queue) <= 1)
    /\ [][\A uid \in Users :
             (/\ ev'.kind = "chat_join" /\ ev'.uid = uid
              /\ uid \notin SeqRange(waiting_queue)
              /\ uid \in SeqRange(waiting_queue'))
                => waiting_queue' = <<uid>>]_vars

\* A join has found nobody to pair with, while the two other users were
\* chatting, and the joiner is the one user waiting.
C35_Witness ==
    /\ ev.kind = "chat_join"
    /\ ~ev.exc
    /\ waiting_queue = <<ev.uid>>
    /\ sent = <<Msg(ev.uid, "waiting")>>
    /\ \E u \in Users : active_chat[u] # 0


\* C36: an event of a user who is not an admin changes no status of a
\* submission or of a broadcast request, nothing in the catalog, no counter
\* of approved submissions and no admin mode, and none of the messages it
\* sends is a reply of the delete-by-id mode or a copy of an admin broadcast.
C36_NonAdminChangesNothing ==
    [][\A uid \in Users \ ADMIN_IDS :
          ev'.uid = uid
             => /\ \A i \in 1..Len(pending_uploads) :
                      pending_uploads'[i].status = pending_uploads[i].status
                /\ \A i \in 1..Len(user_broadcasts) :
                      user_broadcasts'[i].status = user_broadcasts[i].status
                /\ materials' = materials
                /\ user_stats' = user_stats
                /\ admin_delete_mode' = admin_delete_mode
                /\ admin_broadcast_mode' = admin_broadcast_mode
                /\ \A i \in 1..Len(sent') :
                      sent'[i].text \notin DeleteReplies \cup {"admin_bc_copy", "admin_bc_done"}]_vars

\* User 2 has pressed the approve button of their own pending submission
\* while the admin's delete-by-id mode was armed: the submission is still
\* pending and user 2 got the user menu.
C36_Witness ==
    /\ ev.kind = "appr"
    /\ ev.uid = 2
    /\ ~ev.exc
    /\ sent = <<Msg(2, "main_menu")>>
    /\ pending_uploads[2].status = "pending"
    /\ admin_delete_mode[1]


\* The catalog entries that were made from submissions of uid.
EntriesOf(uid) == {e \in materials : e.added_by = uid}

\* C37: with events dispatched one after another and no call raising, the
\* counter of every user is the number of that user's approved submissions,
\* and every event adds as many catalog entries made from a user's submissions
\* as it adds to that user's counter and to that user's approved submissions;
\* so the counter is also the number of entries ever made, deleted or not.
C37_CounterIsApprovedCount ==
    /\ [](\A u \in Users : user_stats[u] = Cardinality(ApprovedUploadsOf(u)))
    /\ [](material_seq = Cardinality(UNION {ApprovedUploadsOf(u) : u \in Users}))
    /\ [][\A u \in Users :
             LET created == Cardinality(EntriesOf(u)' \ EntriesOf(u))
             IN  /\ user_stats'[u] = user_stats[u] + created
                 /\ Cardinality(ApprovedUploadsOf(u)')
                       = Cardinality(ApprovedUploadsOf(u)) + created]_vars

\* User 2 has one approved and one rejected submission and a counter of 1,
\* and the one catalog entry ever made has been deleted by the admin.
C37_Witness ==
    /\ user_stats[2] = 1
    /\ Cardinality(ApprovedUploadsOf(2)) = 1
    /\ \E i \in 1..Len(pending_uploads) : pending_uploads[i].status = "rejected"
    /\ material_seq = 1
    /\ materials = {}


\* The two participants of session sid.
ParticipantsOf(sid) == {chat_sessions[sid].user_a, chat_sessions[sid].user_b}

\* C39: the session map and the pairing map have the same users; two users
\* paired with each other carry the same session id, which names the active
\* session of these two; and a chat text is logged under the session id its
\* sender carries at that moment, which is that session.
C39_SessionMapFollowsPairing ==
    /\ [](\A u \in Users :
             /\ active_session[u] # 0 <=> active_chat[u] # 0
             /\ active_chat[u] # 0
                   => /\ active_session[u] = active_session[active_chat[u]]
                      /\ active_session[u] \in 1..Len(chat_sessions)
                      /\ ParticipantsOf(active_session[u]) = {u, active_chat[u]}
                      /\ chat_sessions[active_session[u]].status = "active")
    /\ [][\A k \in (Len(chat_messages) + 1)..Len(chat_messages') :
             LET row == chat_messages'[k]
             IN  /\ row.sender_id = ev'.uid
                 /\ row.session_id = active_session[row.sender_id]
                 /\ row.sender_id \in ParticipantsOf(row.session_id)
                 /\ chat_sessions[row.session_id].status = "active"]_vars

\* A user whose first session has ended writes in their second one: the text
\* is logged under session 2.
C39_Witness ==
    /\ ev.kind = "message"
    /\ ~ev.exc
    /\ Len(chat_sessions) = 2
    /\ chat_sessions[1].status = "ended"
    /\ ev.uid \in ParticipantsOf(1)
    /\ Len(chat_messages) = 1
    /\ chat_messages[1].sender_id = ev.uid
    /\ chat_messages[1].session_id = 2


\* The record holds a content reference and a full classification.
HasContentAndClass(r) ==
    /\ r.user_chat_id # 0
    /\ r.user_message_id # 0
    /\ r.faculty # NULL /\ r.major # NULL /\ r.entry_year # NULL

\* C40: a user at the title or the attribution step has a scratch record with
\* the content reference and the classification, and at the attribution step
\* also with the title; every submission has a content reference and a title;
\* the title step is entered only from the document step, the attribution
\* step only from the title step, and a submission is created only at the
\* attribution step, from the scratch record.
C40_ScratchRecordIsComplete ==
    /\ [](\A u \in Users :
             /\ user_state[u] \in {"await_course", "await_prof"}
                   => tmp[u].present /\ HasContentAndClass(tmp[u])
             /\ user_state[u] = "await_prof" => tmp[u].course_name # NULL)
    /\ [](\A i \in 1..Len(pending_uploads) :
             HasContentAndClass(pending_uploads[i]) /\ pending_uploads[i].course_name # NULL)
    /\ [][/\ \A u \in Users :
               user_state'[u] # user_state[u]
                  => /\ user_state'[u] = "await_course" => user_state[u] = "await_pdf"
                     /\ user_state'[u] = "await_prof" => user_state[u] = "await_course"
          /\ \A i \in (Len(pending_uploads) + 1)..Len(pending_uploads') :
               LET row == pending_uploads'[i]
                   u == row.submitter_id
               IN  /\ user_state[u] = "await_prof"
                   /\ row.course_name = tmp[u].course_name
                   /\ row.user_message_id = tmp[u].user_message_id]_vars

\* User 2 stands at the attribution step a second time, with document and
\* title in the scratch record, after a first submission was created.
C40_Witness ==
    /\ user_state[2] = "await_prof"
    /\ tmp[2].present
    /\ tmp[2].course_name = "hi"
    /\ tmp[2].user_message_id = 1
    /\ Len(pending_uploads) = 1
    /\ pending_uploads[1].course_name # NULL

====
